---------------------------- MODULE Spec2Model ----------------------------
(***************************************************************************)
(* A model of the UAV log viewer application server:                       *)
(*   - the schema normalizer and the ingestion pipeline (app/ingestion.py),*)
(*   - the tools the agent may call (app/tools.py),                        *)
(*   - the tool executor and the agent loop (app/agent.py),                *)
(*   - the upload, reset and ask handlers (app/main.py),                   *)
(*   - the conversation history (app/conversation.py).                     *)
(*                                                                         *)
(* Text is modelled as a sequence of one-character strings, so that the    *)
(* replacements of the table naming scheme and the wildcards of LIKE act   *)
(* on characters, as they do in the program.                               *)
(***************************************************************************)
EXTENDS Integers, Sequences, FiniteSets, TLC

VARIABLES
    \* ---- normalizer (ingestion.normalize_message_type)
    message_data,     \* the message block handed to the normalizer
    df,               \* the DataFrame it returned
    norm_pc,          \* "input" before the call, "done" after it, "raised"
                      \* when it raised
    \* ---- conversation history (app/conversation.py)
    conversation,     \* the rows of the table of model Conversation
    conv_clock,       \* the last reading of datetime.utcnow
    conv_result,      \* what get_conversation returned, if it was called
                      \* since the table last changed
    \* ---- upload and reset requests in flight (threads of main.py)
    requests,         \* where each request's handler is, and its locals
    \* ---- store and upload state (DuckDB file, main.current_file_id)
    tables,           \* the tables of the store, one record per table
    current_file_id,  \* main.py's global: the active file id, or NoneId
    store_result,     \* what the last store operation returned (or raised)
    store_ops,        \* number of operations on the store's tables so far
    \* ---- one run of agent.run_agent
    pc,               \* position of the generator
    messages,         \* the transcript
    events,           \* the events yielded so far, in order
    iteration,        \* the loop variable of "for iteration in range(...)"
    max_iterations,   \* the parameter of run_agent
    file_id,          \* the parameter of run_agent
    history,          \* the parameter of run_agent
    tool_calls,       \* response_message.tool_calls of the current iteration
    tool_idx,         \* index of the tool call being processed
    result,           \* result of the tool call whose command was just yielded
    next_call_id,     \* the model service's source of fresh tool-call ids
    chunks_left,      \* how many more chunks the open stream may deliver
    \* ---- history (ghost) variables of the run
    model_calls,      \* the model calls made so far, in order
    streamed,         \* the chunk contents the streaming call delivered
    fault,            \* "none", what raised out of run_agent, or "cancelled"
    tools_run         \* number of tool calls executed so far

norm_vars  == <<message_data, df, norm_pc>>
conv_vars  == <<conversation, conv_clock, conv_result>>
race_vars  == <<requests>>
store_vars == <<tables, current_file_id, store_result, store_ops>>
agent_vars == <<pc, messages, events, iteration, max_iterations, file_id,
                history, tool_calls, tool_idx, result, next_call_id,
                chunks_left, model_calls, streamed, fault, tools_run>>
vars == <<norm_vars, conv_vars, race_vars, store_vars, agent_vars>>

-----------------------------------------------------------------------------
(* Bounds of the model.                                                    *)

\* longest field (number of samples) of a message block
MaxLen == 2
\* most fields in a message block given to the normalizer
MaxFields == 2
\* most operations that change the store in one behaviour
MaxStoreOps == 2
\* largest max_iterations a run is started with
MaxIter == 2
\* most tool calls the model may request over one run
MaxToolCalls == 2
\* most chunks a streaming response delivers
MaxChunks == 2
\* largest id of a row of the conversation table, and latest clock reading
MaxMessages == 3

-----------------------------------------------------------------------------
(* Generic helpers.                                                        *)

Range(s) == {s[i] : i \in 1..Len(s)}

Max2(a, b) == IF a >= b THEN a ELSE b

RECURSIVE SetMax(_)
SetMax(S) == IF S = {} THEN 0
             ELSE LET x == CHOOSE y \in S : TRUE
                  IN  Max2(x, SetMax(S \ {x}))

RECURSIVE Concat(_)
\* concatenation of a sequence of sequences
Concat(ss) == IF ss = <<>> THEN <<>> ELSE Head(ss) \o Concat(Tail(ss))

\* all sequences over S of length at most n
SeqsUpTo(S, n) == UNION {[1..k -> S] : k \in 0..n}

\* sequences over S without repetition, of length at most n
InjSeqsUpTo(S, n) ==
    {s \in SeqsUpTo(S, n) : \A i, j \in 1..Len(s) : i # j => s[i] # s[j]}

\* Python's None, where a value that is otherwise text may be absent
NoneId == <<"<None>">>

\* the null sentinel (None) of a table cell
Null == "null"

-----------------------------------------------------------------------------
(* Schema normalizer: ingestion.normalize_message_type.                    *)
(*                                                                         *)
(* A message block is a sequence of fields in the dictionary's insertion   *)
(* order, each [name, val]; val is                                         *)
(*   kind "dict":  items = <<[k |-> key text, v |-> value], ...>>          *)
(*   kind "list":  vals  = <<value, ...>>                                  *)
(*   kind "other": a scalar, a string, None                                *)
(* (a record [kind, items, vals]; the part a kind does not use is <<>>).   *)
(* A DataFrame is [cols |-> column names in order, data |-> name -> list]. *)

EmptyDF == [cols |-> <<>>, data |-> <<>>]

\* a variant of IntOf that ranks a key by its first character, as comparing
\* the key texts would (the code compares the numbers)
IntOfFirstChar(digits) == IF digits = <<>> THEN 0 ELSE digits[1]

RECURSIVE IntOf(_)
\* int(x[0]): the number a key's decimal digits denote
IntOf(digits) ==
    IF digits = <<>> THEN 0
    ELSE 10 * IntOf(SubSeq(digits, 1, Len(digits) - 1)) + digits[Len(digits)]

RECURSIVE InsertByKey(_, _)
\* insert item into a list sorted by int(key), after the items that do not
\* order after it (sorted() is stable)
InsertByKey(sorted, item) ==
    IF sorted = <<>> THEN <<item>>
    ELSE IF IntOf(Head(sorted).k) <= IntOf(item.k)
         THEN <<Head(sorted)>> \o InsertByKey(Tail(sorted), item)
         ELSE <<item>> \o sorted

RECURSIVE SortedItems(_)
\* sorted(field_values.items(), key=lambda x: int(x[0]))
SortedItems(items) ==
    IF items = <<>> THEN <<>>
    ELSE InsertByKey(SortedItems(SubSeq(items, 1, Len(items) - 1)),
                     items[Len(items)])

\* the list a retained field contributes, before padding
FieldList(val) ==
    IF val.kind = "dict"
    THEN LET s == SortedItems(val.items) IN [i \in 1..Len(s) |-> s[i].v]
    ELSE val.vals

IsRetained(f) == f.val.kind \in {"dict", "list"}

\* the fields that are dictionaries or lists, in insertion order
RetainedFields(md) == SelectSeq(md, IsRetained)

\* max_length: the longest retained list
MaxLength(md) ==
    SetMax({Len(FieldList(f.val)) : f \in Range(RetainedFields(md))})

\* a variant of Pad that pads on the left (the code pads on the right)
PadLeft(list, n) ==
    IF Len(list) < n
    THEN [i \in 1..(n - Len(list)) |-> Null] \o list
    ELSE list

\* data[field_name].extend([None] * (max_length - current_length))
Pad(list, n) ==
    IF Len(list) < n
    THEN list \o [i \in 1..(n - Len(list)) |-> Null]
    ELSE list

\* a key text int() accepts: decimal digits (a character that is no digit is
\* written as a number outside 0..9)
IsIndexKey(k) == k # <<>> /\ \A i \in 1..Len(k) : k[i] \in 0..9

\* ingestion.py line 29: int(x[0]) raises ValueError on a key of a mapping
\* that is no number, and nothing in normalize_message_type catches it
NormalizeRaises(md) ==
    \E f \in Range(md) :
        /\ f.val.kind = "dict"
        /\ \E i \in 1..Len(f.val.items) : ~IsIndexKey(f.val.items[i].k)

\* the value the call returns, when it does not raise
normalize_message_type(md) ==
    IF md = <<>> THEN EmptyDF
    ELSE LET kept == RetainedFields(md)
             n    == MaxLength(md)
         IN  [cols |-> [i \in 1..Len(kept) |-> kept[i].name],
              data |-> [c \in {f.name : f \in Range(kept)} |->
                          LET f == CHOOSE g \in Range(kept) : g.name = c
                          IN  Pad(FieldList(f.val), n)]]

\* number of rows of a DataFrame: len(df)
NumRows(d) == IF d.cols = <<>> THEN 0 ELSE Len(d.data[d.cols[1]])

\* df.empty: no column, or no row
IsEmptyDF(d) == d.cols = <<>> \/ NumRows(d) = 0

-----------------------------------------------------------------------------
(* Inputs of the normalizer.                                               *)

FieldNames == <<"time_boot_ms", "Roll", "Pitch">>
CellValues == {"1", "2"}
\* key texts "0", "2", "10": numeric order differs from lexical order
KeyTexts == {<<0>>, <<2>>, <<1, 0>>}

\* a sparse mapping: distinct keys in any insertion order; the value of a key
\* tells the key, so that the output order shows how the keys were ordered
KeyValue(k) == IF k = <<0>> THEN "1" ELSE IF k = <<2>> THEN "2" ELSE "3"

DictValues ==
    {[kind |-> "dict", vals |-> <<>>,
      items |-> [i \in 1..Len(ks) |-> [k |-> ks[i], v |-> KeyValue(ks[i])]]] :
        ks \in InjSeqsUpTo(KeyTexts, MaxLen)}

ListValues ==
    {[kind |-> "list", items |-> <<>>, vals |-> s] : s \in SeqsUpTo(CellValues, MaxLen)}

OtherValue == [kind |-> "other", items |-> <<>>, vals |-> <<>>]

\* mappings that are not index-keyed: {"x": 1} and {"0": 1, "x": 2}
NamedKeyValues ==
    {[kind |-> "dict", vals |-> <<>>,
      items |-> <<[k |-> <<0 - 1>>, v |-> "1"]>>],
     [kind |-> "dict", vals |-> <<>>,
      items |-> <<[k |-> <<0>>, v |-> "1"], [k |-> <<0 - 1>>, v |-> "2"]>>]}

FieldValues == DictValues \cup ListValues \cup {OtherValue} \cup NamedKeyValues

\* the blocks with n fields, named by the first n field names
BlocksOf(n) ==
    {[i \in 1..n |-> [name |-> FieldNames[i], val |-> vs[i]]] :
        vs \in [1..n -> FieldValues]}

-----------------------------------------------------------------------------
(* Text, the table naming scheme and LIKE.                                 *)

\* str.replace(old, new) for one-character old and new
Replace(s, old, new) == [i \in 1..Len(s) |-> IF s[i] = old THEN new ELSE s[i]]

\* file_id.replace("-", "_") of tools.py
CleanFileId(fid) == Replace(fid, "-", "_")

LogPrefix == <<"l", "o", "g", "_">>

\* a variant of TableName that leaves the file id out of the name
TableNameNoFile(fid, msg_type) ==
    Replace(Replace(Replace(LogPrefix \o msg_type, "[", "_"), "]", "_"), "-", "_")

\* ingestion.py line 87:
\* f"log_{file_id}_{msg_type}".replace("[","_").replace("]","_").replace("-","_")
TableName(fid, msg_type) ==
    Replace(Replace(Replace(LogPrefix \o fid \o <<"_">> \o msg_type,
                            "[", "_"), "]", "_"), "-", "_")

RECURSIVE Like(_, _)
\* the store's  s LIKE p : "_" matches any one character, "%" any text
Like(s, p) ==
    IF p = <<>> THEN s = <<>>
    ELSE IF Head(p) = "%"
         THEN Like(s, Tail(p)) \/ (s # <<>> /\ Like(Tail(s), p))
         ELSE /\ s # <<>>
              /\ (Head(p) = "_" \/ Head(p) = Head(s))
              /\ Like(Tail(s), Tail(p))

\* characters the store accepts in an unquoted identifier are letters, digits
\* and "_"; of the characters of this model these are not
NonIdentChars == {"-", "[", "]", "?"}

ValidIdent(name) == \A i \in 1..Len(name) : name[i] \notin NonIdentChars

-----------------------------------------------------------------------------
(* The store: a set of tables, each                                        *)
(*   [name, cols, data]  as the store holds it, and                        *)
(*   [owner, msg]        the upload and message type it was made from      *)
(*                       (history fields, not visible to the program).     *)

TableNames(tbls) == {t.name : t \in tbls}

TableOf(tbls, name) == CHOOSE t \in tbls : t.name = name

\* cells that are Python booleans, and the cell that is a Python list
BoolCells == {"T", "F"}
ListCell == "L"

\* pandas gives a column the dtype bool when all its values are booleans
IsBoolColumn(col) == col # <<>> /\ \A i \in 1..Len(col) : col[i] \in BoolCells

\* ... and the dtype object when it holds a boolean or a list next to
\* values of another kind
IsObjectColumn(col) ==
    /\ ~IsBoolColumn(col)
    /\ \E i \in 1..Len(col) : col[i] \in BoolCells \cup {ListCell}

\* df[col].dropna().iloc[0], or None
FirstNonNull(col) ==
    IF \E i \in 1..Len(col) : col[i] # Null
    THEN col[CHOOSE i \in 1..Len(col) :
                 col[i] # Null /\ \A j \in 1..(i - 1) : col[j] = Null]
    ELSE Null

BoolToInt(v) == IF v = "T" THEN "1" ELSE IF v = "F" THEN "0" ELSE v

\* str(v) of a cell
StrOf(v) == "str:" \o v

\* ingestion.py lines 71-84: the type clean-up of one column
CleanColumn(col) ==
    IF IsBoolColumn(col) THEN [i \in 1..Len(col) |-> BoolToInt(col[i])]
    ELSE IF IsObjectColumn(col)
         THEN IF FirstNonNull(col) = ListCell
              THEN [i \in 1..Len(col) |-> StrOf(col[i])]
              ELSE IF FirstNonNull(col) \in BoolCells
                   THEN [i \in 1..Len(col) |-> BoolToInt(col[i])]
                   ELSE col
         ELSE col

CleanTypes(d) == [cols |-> d.cols,
                  data |-> [c \in DOMAIN d.data |-> CleanColumn(d.data[c])]]

\* CREATE TABLE {table_name} AS SELECT * FROM df : fails on a name that is
\* no identifier and on a name the store already holds
CanCreate(tbls, name) == ValidIdent(name) /\ name \notin TableNames(tbls)

\* ingestion.py lines 61-92: one message type. Returns the tables and whether
\* the store raised.
IngestOne(tbls, m, fid) ==
    IF m.type = <<"F", "I", "L", "E">> THEN [tables |-> tbls, error |-> FALSE]
    ELSE IF NormalizeRaises(m.block) THEN [tables |-> tbls, error |-> TRUE]
    ELSE LET d == normalize_message_type(m.block) IN
         IF IsEmptyDF(d) THEN [tables |-> tbls, error |-> FALSE]
         ELSE LET name == TableName(fid, m.type) IN
              IF CanCreate(tbls, name)
              THEN [tables |-> tbls \cup {[name |-> name, owner |-> fid,
                                           msg |-> m.type,
                                           cols |-> d.cols,
                                           data |-> CleanTypes(d).data]},
                    error |-> FALSE]
              ELSE [tables |-> tbls, error |-> TRUE]

RECURSIVE IngestFrom(_, _, _)
\* the loop over messages.items(): stops at the first failure, keeps what
\* the earlier message types created
IngestFrom(tbls, msgs, fid) ==
    IF msgs = <<>> THEN [tables |-> tbls, error |-> FALSE]
    ELSE LET one == IngestOne(tbls, Head(msgs), fid) IN
         IF one.error THEN one
         ELSE IngestFrom(one.tables, Tail(msgs), fid)

\* raw_data.get("messages", {}) and the loop
ingest_and_normalize(tbls, raw, fid) == IngestFrom(tbls, raw.messages, fid)

-----------------------------------------------------------------------------
(* The tools of app/tools.py. A tool returns a result record; its field    *)
(* kind tells the shape of the Python value:                               *)
(*   "tables"   the list of list_available_tables                          *)
(*   "schema"   the dict of get_table_schema                               *)
(*   "sql"      the envelope of query_sql                                  *)
(*   "command"  a dict whose "type" is "command"                           *)
(*   "error"    a dict with the single key "error"                         *)
(*   "raise"    no value: the call raised                                  *)

ErrorResult(what) == [kind |-> "error", error |-> what]

Raised(what) == [kind |-> "raise", error |-> what]

\* tools.py lines 9-33. file_id.replace on None raises AttributeError.
list_available_tables(tbls, fid) ==
    IF fid = NoneId THEN Raised("AttributeError")
    ELSE LET pattern == LogPrefix \o CleanFileId(fid) \o <<"_", "%">>
         IN  [kind |-> "tables",
              tables |-> {n \in TableNames(tbls) : Like(n, pattern)}]

\* the declared type the store gives a column
DeclaredType(col) ==
    IF \A i \in 1..Len(col) : col[i] \in {"0", "1", "2", "3", "5", "9", Null}
    THEN "BIGINT" ELSE "VARCHAR"

\* tools.py lines 36-58: DESCRIBE "{table_name}"; a failure is re-raised
get_table_schema(tbls, table_name) ==
    IF table_name \in TableNames(tbls)
    THEN LET t == TableOf(tbls, table_name)
         IN  [kind |-> "schema",
              schema |-> [c \in Range(t.cols) |-> DeclaredType(t.data[c])]]
    ELSE Raised("Exception: Error getting schema")

\* the rows of a table, as fetchall() returns them: one tuple per row
RowsOf(t) ==
    [r \in 1..NumRows(t) |-> [c \in 1..Len(t.cols) |-> t.data[t.cols[c]][r]]]

\* A statement is [op, table]: op is "select" (SELECT * FROM table), "drop"
\* (DROP TABLE table), "now" (SELECT now(): one row holding a timestamp) or
\* "garbage" (not SQL).
\* conn.execute(sql) succeeds
SqlSucceeds(tbls, sql) ==
    \/ sql.op = "now"
    \/ sql.op \in {"select", "drop"} /\ sql.table \in TableNames(tbls)

\* the store after conn.execute(sql)
SqlEffect(tbls, sql) ==
    IF sql.op = "drop" /\ SqlSucceeds(tbls, sql)
    THEN {t \in tbls : t.name # sql.table}
    ELSE tbls

\* result.fetchall()
SqlRows(tbls, sql) ==
    IF sql.op = "select" THEN RowsOf(TableOf(tbls, sql.table))
    ELSE IF sql.op = "now" THEN <<(<<"timestamp">>)>>
    ELSE <<>>

\* [desc[0] for desc in result.description] if result.description else []
SqlColumns(tbls, sql) ==
    IF sql.op = "select" THEN TableOf(tbls, sql.table).cols
    ELSE IF sql.op = "now" THEN <<"now">>
    ELSE <<>>

\* a variant of RowCount that counts the columns (the code counts the rows)
RowCountOfColumns(data, columns) == Len(columns)

\* "row_count": len(data)
RowCount(data, columns) == Len(data)

\* tools.py lines 61-116. fetch_ok: whether fetchall() succeeds on a statement
\* that returns no result set (it depends on the store's version; a failure is
\* caught like any other). Returns the envelope; SqlEffect gives the store.
query_sql(tbls, sql, fetch_ok) ==
    IF SqlSucceeds(tbls, sql) /\ (sql.op # "drop" \/ fetch_ok)
    THEN [kind |-> "sql", success |-> TRUE,
          data |-> SqlRows(tbls, sql),
          columns |-> SqlColumns(tbls, sql),
          row_count |-> RowCount(SqlRows(tbls, sql), SqlColumns(tbls, sql))]
    ELSE [kind |-> "sql", success |-> FALSE,
          data |-> <<>>, columns |-> <<>>, row_count |-> 0,
          error |-> "Error", sql |-> sql]

PlaybackActions == {"play", "pause", "speed_0.5x", "speed_1x", "speed_1.5x",
                    "speed_2x", "speed_5x", "speed_10x"}

\* tools.py lines 123-158
control_playback(action) ==
    IF action \notin PlaybackActions THEN ErrorResult("Invalid action")
    ELSE [kind |-> "command", action |-> "control_playback",
          params |-> [action |-> action]]

\* a variant of seek_to_timestamp without the check of the sign
seek_to_timestamp_unchecked(timestamp_ms) ==
    [kind |-> "command", action |-> "seek_to_timestamp",
     params |-> [timestamp |-> timestamp_ms]]

\* tools.py lines 161-181
seek_to_timestamp(timestamp_ms) ==
    IF timestamp_ms < 0 THEN ErrorResult("Timestamp cannot be negative")
    ELSE [kind |-> "command", action |-> "seek_to_timestamp",
          params |-> [timestamp |-> timestamp_ms]]

\* mode_name.upper(), for the mode names of this model
Upper(mode_name) ==
    IF mode_name = "loiter" THEN "LOITER"
    ELSE IF mode_name = "rtl" THEN "RTL"
    ELSE mode_name

ModeNames == {"STABILIZE", "ACRO", "ALT_HOLD", "AUTO", "GUIDED", "LOITER",
              "RTL", "CIRCLE", "LAND", "QSTABILIZE", "QHOVER", "QLOITER",
              "QLAND", "QRTL"}

\* tools.py lines 204-208: mode name -> mode number
mode_map(name) ==
    CASE name = "STABILIZE" -> 0  [] name = "ACRO" -> 1
      [] name = "ALT_HOLD" -> 2   [] name = "AUTO" -> 3
      [] name = "GUIDED" -> 4     [] name = "LOITER" -> 5
      [] name = "RTL" -> 6        [] name = "CIRCLE" -> 7
      [] name = "LAND" -> 9       [] name = "QSTABILIZE" -> 17
      [] name = "QHOVER" -> 18    [] name = "QLOITER" -> 19
      [] name = "QLAND" -> 20     [] name = "QRTL" -> 21

\* the number a numeric cell holds
NumOf(v) ==
    CASE v = "0" -> 0 [] v = "1" -> 1 [] v = "2" -> 2 [] v = "3" -> 3
      [] v = "5" -> 5 [] v = "6" -> 6 [] v = "9" -> 9 [] v = "-1" -> 0 - 1

IsNumCell(v) == v \in {"0", "1", "2", "3", "5", "6", "9", "-1"}

HeartbeatName == <<"H", "E", "A", "R", "T", "B", "E", "A", "T">>

\* the time_boot_ms values of the rows whose custom_mode is the mode number
ModeTimes(t, mode_number) ==
    {t.data["time_boot_ms"][r] : r \in
        {q \in 1..NumRows(t) : IsNumCell(t.data["custom_mode"][q])
                               /\ NumOf(t.data["custom_mode"][q]) = mode_number}}

\* ORDER BY time_boot_ms LIMIT 1: the least value, NULL only when all are
FirstTime(times) ==
    IF \E v \in times : IsNumCell(v)
    THEN CHOOSE v \in times : IsNumCell(v) /\
            \A w \in times : IsNumCell(w) => NumOf(v) <= NumOf(w)
    ELSE Null

\* tools.py lines 184-240
seek_to_mode(tbls, fid, mode_name) ==
    IF fid = NoneId THEN Raised("AttributeError")
    ELSE IF Upper(mode_name) \notin ModeNames THEN ErrorResult("Unknown mode")
    ELSE LET table_name == LogPrefix \o CleanFileId(fid) \o <<"_">> \o HeartbeatName
         IN  IF table_name \notin TableNames(tbls)
             THEN ErrorResult("Could not search for mode")
             ELSE LET t == TableOf(tbls, table_name) IN
                  IF ~({"time_boot_ms", "custom_mode"} \subseteq Range(t.cols))
                  THEN ErrorResult("Could not search for mode")
                  ELSE LET times == ModeTimes(t, mode_map(Upper(mode_name))) IN
                       IF times = {} THEN ErrorResult("Mode not found in this flight")
                       ELSE IF FirstTime(times) = Null
                            THEN ErrorResult("Could not search for mode")
                            ELSE seek_to_timestamp(NumOf(FirstTime(times)))

-----------------------------------------------------------------------------
(* The tool executor: agent.execute_tool.                                  *)
(*                                                                         *)
(* A tool call is [id, name, arguments]; arguments is                      *)
(* [valid |-> whether the text is JSON, args |-> the decoded object].      *)

\* json.dumps raises TypeError on a value JSON cannot hold (a timestamp)
JsonSerializable(res) ==
    ~(res.kind = "sql" /\ res.success
        /\ \E r \in 1..Len(res.data) : "timestamp" \in Range(res.data[r]))

\* json.dumps(result)
JsonDumps(res) == [json |-> res]

\* the argument key the handler of a tool reads (none for the tools that need
\* no argument or have no handler)
RequiredKey(name) ==
    CASE name = "get_table_schema"  -> {"table_name"}
      [] name = "query_sql"         -> {"sql"}
      [] name = "control_playback"  -> {"action"}
      [] name = "seek_to_timestamp" -> {"timestamp_ms"}
      [] name = "seek_to_mode"      -> {"mode_name"}
      [] OTHER                      -> {}

\* a variant of Dispatch without the else branch: a name without a handler
\* leaves result unbound, which raises
DispatchNoElse(tbls, name, args, fid, fetch_ok) ==
    CASE name = "list_available_tables" -> list_available_tables(tbls, fid)
      [] name = "get_table_schema"  -> get_table_schema(tbls, args.table_name)
      [] name = "query_sql"         -> query_sql(tbls, args.sql, fetch_ok)
      [] name = "control_playback"  -> control_playback(args.action)
      [] name = "seek_to_timestamp" -> seek_to_timestamp(args.timestamp_ms)
      [] name = "seek_to_mode"      -> seek_to_mode(tbls, fid, args.mode_name)
      [] OTHER                      -> Raised("UnboundLocalError")

\* agent.py lines 74-90: the dispatch on function_name
Dispatch(tbls, name, args, fid, fetch_ok) ==
    CASE name = "list_available_tables" -> list_available_tables(tbls, fid)
      [] name = "get_table_schema"  -> get_table_schema(tbls, args.table_name)
      [] name = "query_sql"         -> query_sql(tbls, args.sql, fetch_ok)
      [] name = "control_playback"  -> control_playback(args.action)
      [] name = "seek_to_timestamp" -> seek_to_timestamp(args.timestamp_ms)
      [] name = "seek_to_mode"      -> seek_to_mode(tbls, fid, args.mode_name)
      [] OTHER                      -> ErrorResult("Unknown function")

\* agent.py lines 64-99: the value returned, or what was raised
execute_tool(tbls, tool_call, fid, fetch_ok) ==
    IF ~tool_call.arguments.valid THEN Raised("JSONDecodeError")
    ELSE IF ~(RequiredKey(tool_call.name) \subseteq DOMAIN tool_call.arguments.args)
         THEN Raised("KeyError")
         ELSE LET res == Dispatch(tbls, tool_call.name, tool_call.arguments.args,
                                  fid, fetch_ok)
              IN  IF res.kind = "raise" THEN res
                  ELSE IF ~JsonSerializable(res) THEN Raised("TypeError")
                       ELSE res

\* the store after execute_tool: only query_sql changes it
ToolEffect(tbls, tool_call) ==
    IF /\ tool_call.arguments.valid
       /\ tool_call.name = "query_sql"
       /\ "sql" \in DOMAIN tool_call.arguments.args
    THEN SqlEffect(tbls, tool_call.arguments.args.sql)
    ELSE tbls

\* isinstance(result, dict) and result.get("type") == "command"
IsCommand(res) == res.kind = "command"

-----------------------------------------------------------------------------
(* Sample telemetry and file ids.                                          *)

ATT == <<"A", "T", "T">>
FILE == <<"F", "I", "L", "E">>
PARM == <<"P", "A", "R", "M">>
GPS0 == <<"G", "[", "0", "]">>
GPS_0_ == <<"G", "_", "0", "_">>

DictField(name, ks, vs) ==
    [name |-> name,
     val |-> [kind |-> "dict", vals |-> <<>>,
              items |-> [i \in 1..Len(ks) |-> [k |-> ks[i], v |-> vs[i]]]]]

ListField(name, vs) ==
    [name |-> name, val |-> [kind |-> "list", items |-> <<>>, vals |-> vs]]

\* {"ATT": {"Roll": {"0": 1, "1": 2}}, "FILE": {...}}
RawSmall ==
    [messages |-> <<
        [type |-> ATT, block |-> <<DictField("Roll", <<(<<0>>), (<<1>>)>>, <<"1", "2">>)>>],
        [type |-> FILE, block |-> <<ListField("name", <<"1">>)>>] >>]

\* a flight with an attitude block of ragged fields, the mode transitions, the
\* metadata block and an empty block
RawFlight ==
    [messages |-> <<
        [type |-> ATT,
         block |-> <<DictField("Roll", <<(<<1>>), (<<0>>)>>, <<"2", "1">>),
                     ListField("Pitch", <<"1">>)>>],
        [type |-> HeartbeatName,
         block |-> <<ListField("time_boot_ms", <<"5", "2", "9">>),
                     ListField("custom_mode", <<"5", "5", "6">>)>>],
        [type |-> FILE, block |-> <<ListField("name", <<"1">>)>>],
        [type |-> PARM, block |-> <<>>] >>]

\* two message types whose table names are the same text
RawClash ==
    [messages |-> <<
        [type |-> GPS0, block |-> <<ListField("Alt", <<"1", "2">>)>>],
        [type |-> ATT, block |-> <<ListField("Roll", <<"T", "F">>)>>],
        [type |-> GPS_0_, block |-> <<ListField("Alt", <<"3">>)>>],
        [type |-> PARM, block |-> <<ListField("Value", <<"1">>)>>] >>]

\* a message type with brackets, a block of one scalar and a block whose only
\* field holds no sample
RawGps ==
    [messages |-> <<
        [type |-> GPS0, block |-> <<ListField("Alt", <<"1", "2">>)>>],
        [type |-> PARM, block |-> <<[name |-> "Name", val |-> OtherValue]>>],
        [type |-> ATT, block |-> <<ListField("Roll", <<>>)>>] >>]

RawNames == {"RawSmall", "RawFlight", "RawClash", "RawGps"}

RawLog(name) ==
    CASE name = "RawSmall" -> RawSmall
      [] name = "RawFlight" -> RawFlight
      [] name = "RawClash" -> RawClash
      [] name = "RawGps" -> RawGps

\* ids of the shape uuid4 gives (hexadecimal groups joined by hyphens, all of
\* one length), scaled down to two groups of one digit
UuidIds == {<<"a", "-", "b">>, <<"b", "-", "a">>}

\* other texts a caller of ingest_and_normalize may pass as the file id
OtherIds == {<<"a">>, <<"a", "x", "b">>, <<"a", "_", "b">>}

FileIds == UuidIds \cup OtherIds

-----------------------------------------------------------------------------
(* Values of the variables a specification does not use.                   *)

NormIdle ==
    /\ message_data = <<>>
    /\ df = EmptyDF
    /\ norm_pc = "idle"

NoResult == [op |-> "none"]

\* no request is in flight. upload and reset tell where the handler of the
\* request is and hold its locals; uploaded is a history field: the uploads
\* whose ingestion succeeded, each with the names of the tables it created
NoRequests ==
    [upload   |-> [pc |-> "idle", file_id |-> NoneId, todo |-> <<>>, names |-> {}],
     reset    |-> [pc |-> "idle", listed |-> {}],
     uploaded |-> {}]

ConvIdle ==
    /\ conversation = {}
    /\ conv_clock = 0
    /\ conv_result = NoResult

RaceIdle == requests = NoRequests

StoreIdle ==
    /\ current_file_id = NoneId
    /\ store_result = NoResult
    /\ store_ops = 0

AgentIdle ==
    /\ pc = "idle"
    /\ messages = <<>>
    /\ events = <<>>
    /\ iteration = 0
    /\ max_iterations = 0
    /\ file_id = NoneId
    /\ history = <<>>
    /\ tool_calls = <<>>
    /\ tool_idx = 0
    /\ result = NoResult
    /\ next_call_id = 1
    /\ chunks_left = 0
    /\ model_calls = <<>>
    /\ streamed = <<>>
    /\ fault = "none"
    /\ tools_run = 0

-----------------------------------------------------------------------------
(* Specification of the normalizer: a block is drawn, the normalizer is    *)
(* applied to it.                                                          *)

NormInit ==
    /\ \E n \in 0..MaxFields : message_data \in BlocksOf(n)
    /\ df = EmptyDF
    /\ norm_pc = "input"
    /\ tables = {}
    /\ ConvIdle
    /\ RaceIdle
    /\ StoreIdle
    /\ AgentIdle

\* the call returns a DataFrame
Normalize ==
    /\ norm_pc = "input"
    /\ ~NormalizeRaises(message_data)
    /\ df' = normalize_message_type(message_data)
    /\ norm_pc' = "done"
    /\ UNCHANGED <<message_data, conv_vars, race_vars, store_vars, agent_vars>>

\* the call raises: no DataFrame is returned
NormalizeFails ==
    /\ norm_pc = "input"
    /\ NormalizeRaises(message_data)
    /\ norm_pc' = "raised"
    /\ UNCHANGED <<message_data, df, conv_vars, race_vars, store_vars, agent_vars>>

NormNext == Normalize \/ NormalizeFails

NormSpec == NormInit /\ [][NormNext]_vars

-----------------------------------------------------------------------------
(* Specification of the store: uploads, resets and the tools that read or  *)
(* change the store, one operation at a time.                              *)

StoreInit ==
    /\ tables = {}
    /\ StoreIdle
    /\ NormIdle
    /\ ConvIdle
    /\ RaceIdle
    /\ AgentIdle

\* a variant of save_data that makes the new id the active one before the
\* ingestion is tried
save_data_id_first ==
    /\ store_ops < MaxStoreOps
    /\ \E raw \in RawNames, fid \in UuidIds :
        /\ fid # current_file_id
        /\ fid \notin {t.owner : t \in tables}
        /\ LET r == ingest_and_normalize(tables, RawLog(raw), fid) IN
            /\ tables' = r.tables
            /\ current_file_id' = fid
            /\ store_result' = [op |-> "upload", file_id |-> fid, raw |-> raw,
                                before |-> tables, error |-> r.error]
    /\ store_ops' = store_ops + 1
    /\ UNCHANGED <<norm_vars, conv_vars, race_vars, agent_vars>>

\* main.py lines 80-100, with the id uuid4 mints (never one minted before)
save_data ==
    /\ store_ops < MaxStoreOps
    /\ \E raw \in RawNames, fid \in UuidIds :
        /\ fid # current_file_id
        /\ fid \notin {t.owner : t \in tables}
        /\ LET r == ingest_and_normalize(tables, RawLog(raw), fid) IN
            /\ tables' = r.tables
            /\ current_file_id' = IF r.error THEN current_file_id ELSE fid
            /\ store_result' = [op |-> "upload", file_id |-> fid, raw |-> raw,
                                before |-> tables, error |-> r.error]
    /\ store_ops' = store_ops + 1
    /\ UNCHANGED <<norm_vars, conv_vars, race_vars, agent_vars>>

\* ingestion.py lines 50-94, called with a file id of the caller's choosing
Ingest ==
    /\ store_ops < MaxStoreOps
    /\ \E raw \in RawNames, fid \in FileIds :
        /\ fid \notin {t.owner : t \in tables}
        /\ LET r == ingest_and_normalize(tables, RawLog(raw), fid) IN
            /\ tables' = r.tables
            /\ store_result' = [op |-> "ingest", file_id |-> fid, raw |-> raw,
                                before |-> tables, error |-> r.error]
    /\ store_ops' = store_ops + 1
    /\ UNCHANGED <<current_file_id, norm_vars, conv_vars, race_vars, agent_vars>>

\* a variant of reset_database that drops the tables and keeps the active id
reset_database_keeps_id ==
    /\ store_ops < MaxStoreOps
    /\ tables' = {}
    /\ store_result' = [op |-> "reset", status |-> "reset",
                        tables_dropped |-> Cardinality(tables)]
    /\ store_ops' = store_ops + 1
    /\ UNCHANGED <<current_file_id, norm_vars, conv_vars, race_vars, agent_vars>>

\* main.py lines 40-78: every table is dropped and the active id reset
reset_database ==
    /\ store_ops < MaxStoreOps
    /\ tables' = {}
    /\ current_file_id' = NoneId
    /\ store_result' = [op |-> "reset", status |-> "reset",
                        tables_dropped |-> Cardinality(tables)]
    /\ store_ops' = store_ops + 1
    /\ UNCHANGED <<norm_vars, conv_vars, race_vars, agent_vars>>

\* main.py lines 40-78 when the store raises (on connecting, or at a DROP
\* after some tables were dropped): the except branch reports the error
reset_database_fails ==
    /\ store_ops < MaxStoreOps
    /\ \E kept \in SUBSET tables :
        /\ kept # {}
        /\ tables' = kept
    /\ store_result' = [op |-> "reset", status |-> "error", tables_dropped |-> 0]
    /\ store_ops' = store_ops + 1
    /\ UNCHANGED <<current_file_id, norm_vars, conv_vars, race_vars, agent_vars>>

\* the statements tried on the store
SqlStatements(tbls) ==
    {[op |-> o, table |-> n] :
        o \in {"select", "drop"},
        n \in TableNames(tbls) \cup {LogPrefix \o <<"x">>}}
    \cup {[op |-> "now", table |-> <<>>], [op |-> "garbage", table |-> <<>>]}

\* tools.py lines 61-116, called on any statement
QuerySql ==
    /\ store_ops < MaxStoreOps
    /\ \E sql \in SqlStatements(tables), fetch_ok \in BOOLEAN :
        /\ store_result' = [op |-> "query_sql", sql |-> sql, before |-> tables,
                            value |-> query_sql(tables, sql, fetch_ok)]
        /\ tables' = SqlEffect(tables, sql)
    /\ store_ops' = store_ops + 1
    /\ UNCHANGED <<current_file_id, norm_vars, conv_vars, race_vars, agent_vars>>

\* agent.py lines 74-76: list-tables as the executor dispatches it, under the
\* session's file id ctx, whatever file id the model wrote in the arguments
ListTables ==
    /\ \E ctx \in FileIds, arg \in FileIds :
        /\ ctx \in {t.owner : t \in tables}
        /\ store_result' =
              [op |-> "list", ctx |-> ctx, arg |-> arg,
               value |-> execute_tool(tables,
                            [id |-> 1, name |-> "list_available_tables",
                             arguments |-> [valid |-> TRUE, args |-> [file_id |-> arg]]],
                            ctx, TRUE)]
    /\ UNCHANGED <<tables, current_file_id, store_ops, norm_vars, conv_vars, race_vars, agent_vars>>

\* the mode names tried: two of the enumeration in lower case, one in upper
\* case and one the enumeration does not have
ModeRequests == {"loiter", "rtl", "AUTO", "HOVER"}

\* agent.py lines 87-88: seek-to-mode as the executor dispatches it, under the
\* session's file id ctx, which is None when no file is active
SeekToMode ==
    /\ \E ctx \in FileIds \cup {NoneId}, arg \in UuidIds, mode_name \in ModeRequests :
        /\ store_result' =
              [op |-> "seek_to_mode", ctx |-> ctx, mode_name |-> mode_name,
               before |-> tables,
               value |-> execute_tool(tables,
                            [id |-> 1, name |-> "seek_to_mode",
                             arguments |-> [valid |-> TRUE,
                                            args |-> [file_id |-> arg,
                                                      mode_name |-> mode_name]]],
                            ctx, TRUE)]
    /\ UNCHANGED <<tables, current_file_id, store_ops, norm_vars, conv_vars, race_vars, agent_vars>>

StoreNext ==
    \/ save_data
    \/ Ingest
    \/ reset_database
    \/ reset_database_fails
    \/ QuerySql
    \/ ListTables

StoreSpec == StoreInit /\ [][StoreNext]_vars

-----------------------------------------------------------------------------
(* Specification of seek-to-mode: the tool is called on a store that up to *)
(* two ingestions filled.                                                  *)

\* the stores two ingestions leave, whether they succeeded or failed midway
ModeStores ==
    {{}} \cup
    {ingest_and_normalize(ingest_and_normalize({}, RawLog(a), f).tables,
                          RawLog(b), g).tables :
        a \in RawNames, b \in RawNames, f \in FileIds, g \in FileIds}

ModeInit ==
    /\ tables \in ModeStores
    /\ StoreIdle
    /\ NormIdle
    /\ ConvIdle
    /\ RaceIdle
    /\ AgentIdle

ModeNext == SeekToMode

ModeSpec == ModeInit /\ [][ModeNext]_vars

-----------------------------------------------------------------------------
(* Specification of the agent loop: one run of agent.run_agent, driven by  *)
(* a caller that takes every event, against a store that holds two         *)
(* ingested logs. The model service and its answers are the environment.   *)

IdA == <<"a", "-", "b">>
IdB == <<"b", "-", "a">>

AgentStore ==
    ingest_and_normalize(ingest_and_normalize({}, RawFlight, IdA).tables,
                         RawSmall, IdB).tables

Args(r) == [valid |-> TRUE, args |-> r]

NoArgs == [none |-> TRUE]

\* the tool requests the model may make: every tool of the catalog with
\* arguments of each kind, a name the catalog does not have, and arguments
\* that are not JSON or lack the key the handler reads
ToolRequests == <<
    [name |-> "list_available_tables", arguments |-> Args([file_id |-> IdB])],
    [name |-> "get_table_schema",
     arguments |-> Args([table_name |-> TableName(IdA, ATT)])],
    [name |-> "get_table_schema",
     arguments |-> Args([table_name |-> LogPrefix \o <<"x">>])],
    [name |-> "query_sql",
     arguments |-> Args([sql |-> [op |-> "select", table |-> TableName(IdA, ATT)]])],
    [name |-> "query_sql",
     arguments |-> Args([sql |-> [op |-> "now", table |-> <<>>]])],
    [name |-> "control_playback", arguments |-> Args([action |-> "pause"])],
    [name |-> "seek_to_timestamp", arguments |-> Args([timestamp_ms |-> 0 - 1])],
    [name |-> "seek_to_timestamp", arguments |-> Args([timestamp_ms |-> 0])],
    [name |-> "seek_to_mode",
     arguments |-> Args([file_id |-> IdA, mode_name |-> "loiter"])],
    [name |-> "toggle_ui",
     arguments |-> Args([component |-> "map", visible |-> FALSE])],
    [name |-> "create_plot",
     arguments |-> Args([file_id |-> IdA, fields |-> <<"ATT.Roll">>])],
    [name |-> "describe_flight", arguments |-> Args(NoArgs)],
    [name |-> "query_sql", arguments |-> [valid |-> FALSE, args |-> NoArgs]] >>

\* the tool calls of one response: requests in the order the model issued
\* them, each with a fresh id
ToolCallLists(first_id, n) ==
    {[i \in 1..n |-> [id |-> first_id + i - 1,
                      name |-> ToolRequests[ks[i]].name,
                      arguments |-> ToolRequests[ks[i]].arguments]] :
        ks \in [1..n -> 1..Len(ToolRequests)]}

\* the history lists a caller passes
Histories == {<<>>,
              <<[role |-> "user", content |-> [text |-> "q0"]],
                [role |-> "assistant", content |-> [text |-> "a0"]]>>}

\* what a chunk of the streamed answer holds; <<>> is a chunk without content
ChunkContents == {<<>>, <<"a">>, <<"b">>}

\* agent.py lines 10-61: which state section the prompt carries ("if file_id")
build_system_prompt(fid) ==
    IF fid # NoneId /\ fid # <<>>
    THEN [prompt |-> "file", file_id |-> fid]
    ELSE [prompt |-> "no_file", file_id |-> NoneId]

\* the token of agent.py line 204
MaxIterationsMessage == <<"maximum number of analysis steps">>

TokenEvent(content) == [type |-> "token", content |-> content]

DoneEvent == [type |-> "done"]

\* a command result is yielded as it is
CommandEvent(res) == [type |-> "command", action |-> res.action, params |-> res.params]

\* a variant of ToolMessage that tags the message with the id before the
\* call's own
ToolMessageStaleId(tool_call, res) ==
    [role |-> "tool", tool_call_id |-> tool_call.id - 1, name |-> tool_call.name,
     content |-> JsonDumps(res)]

\* agent.py lines 192-197
ToolMessage(tool_call, res) ==
    [role |-> "tool", tool_call_id |-> tool_call.id, name |-> tool_call.name,
     content |-> JsonDumps(res)]

Init ==
    /\ pc = "start"
    /\ messages = <<>>
    /\ events = <<>>
    /\ iteration = 0
    /\ max_iterations \in 0..MaxIter
    /\ file_id \in {NoneId, IdA}
    /\ history \in Histories
    /\ tool_calls = <<>>
    /\ tool_idx = 0
    /\ result = NoResult
    /\ next_call_id = 1
    /\ chunks_left = 0
    /\ model_calls = <<>>
    /\ streamed = <<>>
    /\ fault = "none"
    /\ tools_run = 0
    /\ tables = AgentStore
    /\ current_file_id = file_id
    /\ store_result = NoResult
    /\ store_ops = 0
    /\ NormIdle
    /\ ConvIdle
    /\ RaceIdle

\* a variant of BuildTranscript that puts the question before the history
BuildTranscriptQuestionFirst ==
    /\ pc = "start"
    /\ messages' = <<[role |-> "system", content |-> build_system_prompt(file_id)]>>
                   \o <<[role |-> "user", content |-> [text |-> "question"]]>>
                   \o history
    /\ pc' = "loop"
    /\ UNCHANGED <<events, iteration, max_iterations, file_id, history,
                   tool_calls, tool_idx, result, next_call_id, chunks_left,
                   model_calls, streamed, fault, tools_run,
                   norm_vars, conv_vars,
                   race_vars, store_vars>>

\* agent.py lines 124-135: the transcript before the first model call
BuildTranscript ==
    /\ pc = "start"
    /\ messages' = <<[role |-> "system", content |-> build_system_prompt(file_id)]>>
                   \o history
                   \o <<[role |-> "user", content |-> [text |-> "question"]]>>
    /\ pc' = "loop"
    /\ UNCHANGED <<events, iteration, max_iterations, file_id, history,
                   tool_calls, tool_idx, result, next_call_id, chunks_left,
                   model_calls, streamed, fault, tools_run,
                   norm_vars, conv_vars,
                   race_vars, store_vars>>

\* the record of a model call: whether it streams, whether it is given the
\* tool catalog, and the transcript it is given
ModelCall(stream, tools) == [stream |-> stream, tools |-> tools, messages |-> messages]

\* agent.py lines 138-148: the non-streaming call raises
CallModelRaises ==
    /\ pc = "loop"
    /\ iteration < max_iterations
    /\ model_calls' = Append(model_calls, ModelCall(FALSE, TRUE))
    /\ fault' = "model"
    /\ pc' = "failed"
    /\ UNCHANGED <<messages, events, iteration, max_iterations, file_id, history,
                   tool_calls, tool_idx, result, next_call_id, chunks_left,
                   streamed, tools_run, norm_vars, conv_vars,
                   race_vars, store_vars>>

\* a variant of CallModelFinal that appends the response to the transcript
CallModelFinalAppending ==
    /\ pc = "loop"
    /\ iteration < max_iterations
    /\ model_calls' = Append(model_calls, ModelCall(FALSE, TRUE))
    /\ messages' = Append(messages, [role |-> "assistant",
                                     content |-> [text |-> "answer"]])
    /\ pc' = "final"
    /\ UNCHANGED <<events, iteration, max_iterations, file_id, history,
                   tool_calls, tool_idx, result, next_call_id, chunks_left,
                   streamed, fault, tools_run,
                   norm_vars, conv_vars,
                   race_vars, store_vars>>

\* agent.py lines 138-153: the response carries no tool call
CallModelFinal ==
    /\ pc = "loop"
    /\ iteration < max_iterations
    /\ model_calls' = Append(model_calls, ModelCall(FALSE, TRUE))
    /\ pc' = "final"
    /\ UNCHANGED <<messages, events, iteration, max_iterations, file_id, history,
                   tool_calls, tool_idx, result, next_call_id, chunks_left,
                   streamed, fault, tools_run, norm_vars, conv_vars,
                   race_vars, store_vars>>

\* a variant of CallModelTools that puts the assistant message in front of
\* the transcript and drops the system message
CallModelToolsRewriting ==
    /\ pc = "loop"
    /\ iteration < max_iterations
    /\ \E n \in 1..(MaxToolCalls - (next_call_id - 1)) :
        \E tcs \in ToolCallLists(next_call_id, n) :
            /\ tool_calls' = tcs
            /\ next_call_id' = next_call_id + n
            /\ messages' = <<[role |-> "assistant", tool_calls |-> tcs]>>
                           \o Tail(messages)
    /\ model_calls' = Append(model_calls, ModelCall(FALSE, TRUE))
    /\ tool_idx' = 1
    /\ pc' = "tools"
    /\ UNCHANGED <<events, iteration, max_iterations, file_id, history, result,
                   chunks_left, streamed, fault, tools_run, norm_vars, conv_vars,
                   race_vars, store_vars>>

\* agent.py lines 138-153 and 176-180: the response carries tool calls
CallModelTools ==
    /\ pc = "loop"
    /\ iteration < max_iterations
    /\ \E n \in 1..(MaxToolCalls - (next_call_id - 1)) :
        \E tcs \in ToolCallLists(next_call_id, n) :
            /\ tool_calls' = tcs
            /\ next_call_id' = next_call_id + n
            /\ messages' = Append(messages, [role |-> "assistant", tool_calls |-> tcs])
    /\ model_calls' = Append(model_calls, ModelCall(FALSE, TRUE))
    /\ tool_idx' = 1
    /\ pc' = "tools"
    /\ UNCHANGED <<events, iteration, max_iterations, file_id, history, result,
                   chunks_left, streamed, fault, tools_run, norm_vars, conv_vars,
                   race_vars, store_vars>>

\* agent.py lines 159-163: the streaming call raises
OpenStreamRaises ==
    /\ pc = "final"
    /\ model_calls' = Append(model_calls, ModelCall(TRUE, FALSE))
    /\ fault' = "model"
    /\ pc' = "failed"
    /\ UNCHANGED <<messages, events, iteration, max_iterations, file_id, history,
                   tool_calls, tool_idx, result, next_call_id, chunks_left,
                   streamed, tools_run, norm_vars, conv_vars,
                   race_vars, store_vars>>

\* agent.py lines 159-163: the streaming call returns a stream
OpenStream ==
    /\ pc = "final"
    /\ model_calls' = Append(model_calls, ModelCall(TRUE, FALSE))
    /\ chunks_left' = MaxChunks
    /\ pc' = "streaming"
    /\ UNCHANGED <<messages, events, iteration, max_iterations, file_id, history,
                   tool_calls, tool_idx, result, next_call_id,
                   streamed, fault, tools_run, norm_vars, conv_vars,
                   race_vars, store_vars>>

\* agent.py lines 165-169: the stream delivers a chunk; one with content is
\* yielded as a token
StreamChunk ==
    /\ pc = "streaming"
    /\ chunks_left > 0
    /\ \E content \in ChunkContents :
        /\ streamed' = Append(streamed, content)
        /\ events' = IF content # <<>> THEN Append(events, TokenEvent(content))
                     ELSE events
    /\ chunks_left' = chunks_left - 1
    /\ UNCHANGED <<pc, messages, iteration, max_iterations, file_id, history,
                   tool_calls, tool_idx, result, next_call_id,
                   model_calls, fault, tools_run, norm_vars, conv_vars,
                   race_vars, store_vars>>

\* agent.py line 165: the stream raises while it is read
StreamRaises ==
    /\ pc = "streaming"
    /\ fault' = "model"
    /\ pc' = "failed"
    /\ UNCHANGED <<messages, events, iteration, max_iterations, file_id, history,
                   tool_calls, tool_idx, result, next_call_id, chunks_left,
                   model_calls, streamed, tools_run, norm_vars, conv_vars,
                   race_vars, store_vars>>

\* agent.py lines 171-173: the stream ends
StreamEnd ==
    /\ pc = "streaming"
    /\ events' = Append(events, DoneEvent)
    /\ pc' = "done"
    /\ UNCHANGED <<messages, iteration, max_iterations, file_id, history,
                   tool_calls, tool_idx, result, next_call_id, chunks_left,
                   model_calls, streamed, fault, tools_run, norm_vars, conv_vars,
                   race_vars, store_vars>>

\* the end of the body of "for tool_call in ...": the next tool call, or the
\* next iteration of the agent loop
NextToolCall ==
    IF tool_idx < Len(tool_calls)
    THEN /\ tool_idx' = tool_idx + 1
         /\ pc' = "tools"
         /\ UNCHANGED iteration
    ELSE /\ tool_idx' = tool_idx
         /\ pc' = "loop"
         /\ iteration' = iteration + 1

\* agent.py line 184: execute_tool raises, and so does run_agent
ExecToolRaises ==
    /\ pc = "tools"
    /\ \E fetch_ok \in BOOLEAN :
        /\ execute_tool(tables, tool_calls[tool_idx], file_id, fetch_ok).kind = "raise"
        /\ tables' = ToolEffect(tables, tool_calls[tool_idx])
    /\ tools_run' = tools_run + 1
    /\ fault' = "tool"
    /\ pc' = "failed"
    /\ UNCHANGED <<messages, events, iteration, max_iterations, file_id, history,
                   tool_calls, tool_idx, result, next_call_id, chunks_left,
                   model_calls, streamed, norm_vars, conv_vars, race_vars,
                   current_file_id, store_result, store_ops>>

\* a variant of ExecToolCommand that appends the tool message before it
\* yields the command
ExecToolCommandFoldFirst ==
    /\ pc = "tools"
    /\ \E fetch_ok \in BOOLEAN :
        LET res == execute_tool(tables, tool_calls[tool_idx], file_id, fetch_ok) IN
        /\ res.kind # "raise"
        /\ IsCommand(res)
        /\ messages' = Append(messages, ToolMessage(tool_calls[tool_idx], res))
        /\ events' = Append(events, CommandEvent(res))
        /\ result' = res
        /\ tables' = ToolEffect(tables, tool_calls[tool_idx])
    /\ tools_run' = tools_run + 1
    /\ pc' = "yield_command"
    /\ UNCHANGED <<iteration, max_iterations, file_id, history,
                   tool_calls, tool_idx, next_call_id, chunks_left,
                   model_calls, streamed, fault, norm_vars, conv_vars, race_vars,
                   current_file_id, store_result, store_ops>>

\* agent.py lines 184-189: the result is a command, which is yielded
ExecToolCommand ==
    /\ pc = "tools"
    /\ \E fetch_ok \in BOOLEAN :
        LET res == execute_tool(tables, tool_calls[tool_idx], file_id, fetch_ok) IN
        /\ res.kind # "raise"
        /\ IsCommand(res)
        /\ events' = Append(events, CommandEvent(res))
        /\ result' = res
        /\ tables' = ToolEffect(tables, tool_calls[tool_idx])
    /\ tools_run' = tools_run + 1
    /\ pc' = "yield_command"
    /\ UNCHANGED <<messages, iteration, max_iterations, file_id, history,
                   tool_calls, tool_idx, next_call_id, chunks_left,
                   model_calls, streamed, fault, norm_vars, conv_vars, race_vars,
                   current_file_id, store_result, store_ops>>

\* agent.py lines 191-197, after the command was taken
ResumeAfterCommand ==
    /\ pc = "yield_command"
    /\ messages' = Append(messages, ToolMessage(tool_calls[tool_idx], result))
    /\ NextToolCall
    /\ UNCHANGED <<events, max_iterations, file_id, history, tool_calls, result,
                   next_call_id, chunks_left, model_calls, streamed, fault,
                   tools_run, norm_vars, conv_vars,
                   race_vars, store_vars>>

\* agent.py lines 184-197: the result is no command
ExecToolResult ==
    /\ pc = "tools"
    /\ \E fetch_ok \in BOOLEAN :
        LET res == execute_tool(tables, tool_calls[tool_idx], file_id, fetch_ok) IN
        /\ res.kind # "raise"
        /\ ~IsCommand(res)
        /\ messages' = Append(messages, ToolMessage(tool_calls[tool_idx], res))
        /\ tables' = ToolEffect(tables, tool_calls[tool_idx])
    /\ tools_run' = tools_run + 1
    /\ NextToolCall
    /\ UNCHANGED <<events, max_iterations, file_id, history, tool_calls, result,
                   next_call_id, chunks_left, model_calls, streamed, fault,
                   norm_vars, conv_vars, race_vars, current_file_id, store_result, store_ops>>

\* agent.py lines 201-205: the loop ran max_iterations times
MaxIterationsToken ==
    /\ pc = "loop"
    /\ iteration >= max_iterations
    /\ events' = Append(events, TokenEvent(MaxIterationsMessage))
    /\ pc' = "yield_max"
    /\ UNCHANGED <<messages, iteration, max_iterations, file_id, history,
                   tool_calls, tool_idx, result, next_call_id, chunks_left,
                   model_calls, streamed, fault, tools_run, norm_vars, conv_vars,
                   race_vars, store_vars>>

\* a variant of MaxIterationsDone that returns without the done event
MaxIterationsReturn ==
    /\ pc = "yield_max"
    /\ pc' = "done"
    /\ UNCHANGED <<messages, events, iteration, max_iterations, file_id, history,
                   tool_calls, tool_idx, result, next_call_id, chunks_left,
                   model_calls, streamed, fault, tools_run,
                   norm_vars, conv_vars,
                   race_vars, store_vars>>

\* agent.py line 206
MaxIterationsDone ==
    /\ pc = "yield_max"
    /\ events' = Append(events, DoneEvent)
    /\ pc' = "done"
    /\ UNCHANGED <<messages, iteration, max_iterations, file_id, history,
                   tool_calls, tool_idx, result, next_call_id, chunks_left,
                   model_calls, streamed, fault, tools_run, norm_vars, conv_vars,
                   race_vars, store_vars>>

Next ==
    \/ BuildTranscript
    \/ CallModelRaises
    \/ CallModelFinal
    \/ CallModelTools
    \/ OpenStreamRaises
    \/ OpenStream
    \/ StreamChunk
    \/ StreamRaises
    \/ StreamEnd
    \/ ExecToolRaises
    \/ ExecToolCommand
    \/ ResumeAfterCommand
    \/ ExecToolResult
    \/ MaxIterationsToken
    \/ MaxIterationsDone

Spec == Init /\ [][Next]_vars

\* the generator is scheduled until it returns or raises
FairSpec == Spec /\ WF_vars(Next)

-----------------------------------------------------------------------------
(* Specification of upload and reset requests served at the same time.     *)
(* save_data and reset_database are plain functions, which the framework   *)
(* runs in worker threads: the statements of one may run between the       *)
(* statements of the other. A step is one statement on the store or one    *)
(* assignment of the global current_file_id.                               *)

RaceInit ==
    /\ tables = {}
    /\ StoreIdle
    /\ RaceIdle
    /\ ConvIdle
    /\ NormIdle
    /\ AgentIdle

\* main.py line 84: an upload arrives and its id is minted
UploadStart ==
    /\ requests.upload.pc = "idle"
    /\ store_ops < MaxStoreOps
    /\ \E raw \in RawNames, fid \in UuidIds :
        /\ fid # current_file_id
        /\ fid \notin {t.owner : t \in tables}
        /\ fid \notin {u.file_id : u \in requests.uploaded}
        /\ requests' = [requests EXCEPT
                           !.upload = [pc |-> "ingest", file_id |-> fid,
                                       todo |-> RawLog(raw).messages,
                                       names |-> {}]]
    /\ store_ops' = store_ops + 1
    /\ UNCHANGED <<tables, current_file_id, store_result,
                   norm_vars, conv_vars, agent_vars>>

\* ingestion.py lines 60-92: the next message type of the upload
UploadIngestOne ==
    /\ requests.upload.pc = "ingest"
    /\ requests.upload.todo # <<>>
    /\ LET u   == requests.upload
           one == IngestOne(tables, Head(u.todo), u.file_id)
       IN  IF one.error
           THEN \* main.py lines 91-95: the upload answers with the error
                /\ requests' = [requests EXCEPT !.upload = NoRequests.upload]
                /\ UNCHANGED tables
           ELSE /\ tables' = one.tables
                /\ requests' = [requests EXCEPT
                      !.upload.todo = Tail(u.todo),
                      !.upload.names = u.names \cup
                            (TableNames(one.tables) \ TableNames(tables))]
    /\ UNCHANGED <<current_file_id, store_result, store_ops,
                   norm_vars, conv_vars, agent_vars>>

\* main.py line 89: the ingestion returned; the id becomes the active one
UploadActivate ==
    /\ requests.upload.pc = "ingest"
    /\ requests.upload.todo = <<>>
    /\ current_file_id' = requests.upload.file_id
    /\ requests' = [requests EXCEPT
          !.upload = NoRequests.upload,
          !.uploaded = requests.uploaded \cup
                {[file_id |-> requests.upload.file_id,
                  names |-> requests.upload.names]}]
    /\ UNCHANGED <<tables, store_result, store_ops,
                   norm_vars, conv_vars, agent_vars>>

\* main.py lines 52-57: a reset arrives and lists the tables of the store
ResetList ==
    /\ requests.reset.pc = "idle"
    /\ store_ops < MaxStoreOps
    /\ requests' = [requests EXCEPT
          !.reset = [pc |-> "drop", listed |-> TableNames(tables)]]
    /\ store_ops' = store_ops + 1
    /\ UNCHANGED <<tables, current_file_id, store_result,
                   norm_vars, conv_vars, agent_vars>>

\* main.py lines 59-61: the next table of the list is dropped
ResetDropOne ==
    /\ requests.reset.pc = "drop"
    /\ \E name \in requests.reset.listed :
        /\ tables' = {t \in tables : t.name # name}
        /\ requests' = [requests EXCEPT
              !.reset.listed = requests.reset.listed \ {name}]
    /\ UNCHANGED <<current_file_id, store_result, store_ops,
                   norm_vars, conv_vars, agent_vars>>

\* main.py lines 74-78: a statement of the reset raises; the reset answers
\* with the error
ResetRaises ==
    /\ requests.reset.pc = "drop"
    /\ requests' = [requests EXCEPT !.reset = NoRequests.reset]
    /\ UNCHANGED <<tables, current_file_id, store_result, store_ops,
                   norm_vars, conv_vars, agent_vars>>

\* main.py lines 63-67: every listed table was dropped; no file is active
ResetClear ==
    /\ requests.reset.pc = "drop"
    /\ requests.reset.listed = {}
    /\ current_file_id' = NoneId
    /\ requests' = [requests EXCEPT !.reset = NoRequests.reset]
    /\ UNCHANGED <<tables, store_result, store_ops,
                   norm_vars, conv_vars, agent_vars>>

RaceNext ==
    \/ UploadStart
    \/ UploadIngestOne
    \/ UploadActivate
    \/ ResetList
    \/ ResetDropOne
    \/ ResetRaises
    \/ ResetClear

RaceSpec == RaceInit /\ [][RaceNext]_vars

-----------------------------------------------------------------------------
(* Specification of the conversation history: app/conversation.py.         *)
(* A row of the table is [id, session_id, role, content, timestamp].       *)

Sessions == {"s1", "s2"}

Roles == {"user", "assistant"}

\* the values of the parameter limit tried
Limits == {1, 2}

\* conversation.py line 19: the integer primary key the store gives a new
\* row, one more than the largest in the table
NextId(rows) == SetMax({r.id : r \in rows}) + 1

\* conversation.py lines 36-52; the timestamp is the default of line 23, the
\* reading now of datetime.utcnow
save_message(rows, session_id, role, content, now) ==
    rows \cup {[id |-> NextId(rows), session_id |-> session_id, role |-> role,
                content |-> content, timestamp |-> now]}

\* the orders in which ORDER BY timestamp DESC may deliver rows: rows with
\* the same timestamp come in any order, as no further sort key is given
OrderedByTimestampDesc(rows) ==
    {s \in [1..Cardinality(rows) -> rows] :
        /\ \A i, j \in 1..Cardinality(rows) : i # j => s[i] # s[j]
        /\ \A i, j \in 1..Cardinality(rows) :
             i < j => s[i].timestamp >= s[j].timestamp}

\* conversation.py lines 55-80, on the delivery order ordered: LIMIT, then
\* reversed(results), each row as {"role", "content"}
get_conversation(ordered, limit) ==
    LET n == IF Len(ordered) < limit THEN Len(ordered) ELSE limit
    IN  [i \in 1..n |-> [role |-> ordered[n - i + 1].role,
                         content |-> ordered[n - i + 1].content]]

\* the rows of one session
OfSession(rows, session_id) == {r \in rows : r.session_id = session_id}

ConvInit ==
    /\ ConvIdle
    /\ RaceIdle
    /\ tables = {}
    /\ StoreIdle
    /\ NormIdle
    /\ AgentIdle

\* a message is saved; the clock has moved on since the last reading, or it
\* still reads the same
SaveMessage ==
    /\ NextId(conversation) <= MaxMessages
    /\ \E session_id \in Sessions, role \in Roles,
          now \in {conv_clock, conv_clock + 1} :
        /\ now <= MaxMessages
        /\ conversation' = save_message(conversation, session_id, role,
                                        [text |-> "m"], now)
        /\ conv_clock' = now
    /\ conv_result' = NoResult
    /\ UNCHANGED <<norm_vars, race_vars, store_vars, agent_vars>>

GetConversation ==
    /\ \E session_id \in Sessions, limit \in Limits :
        \E ordered \in OrderedByTimestampDesc(OfSession(conversation, session_id)) :
            conv_result' = [op |-> "get", session_id |-> session_id,
                            limit |-> limit,
                            value |-> get_conversation(ordered, limit)]
    /\ UNCHANGED <<conversation, conv_clock, norm_vars, race_vars, store_vars,
                   agent_vars>>

\* conversation.py lines 83-97
ClearConversation ==
    /\ \E session_id \in Sessions :
        /\ OfSession(conversation, session_id) # {}
        /\ conversation' = conversation \ OfSession(conversation, session_id)
    /\ conv_result' = NoResult
    /\ UNCHANGED <<conv_clock, norm_vars, race_vars, store_vars,
                   agent_vars>>

\* conversation.py lines 100-107
ClearAllConversations ==
    /\ conversation # {}
    /\ conversation' = {}
    /\ conv_result' = NoResult
    /\ UNCHANGED <<conv_clock, norm_vars, race_vars, store_vars,
                   agent_vars>>

ConvNext ==
    \/ SaveMessage
    \/ GetConversation
    \/ ClearConversation
    \/ ClearAllConversations

ConvSpec == ConvInit /\ [][ConvNext]_vars

-----------------------------------------------------------------------------
(* Specification of a run whose caller may stop consuming the events.      *)
(* run_agent is a generator: it runs only while the caller asks for the    *)
(* next event, and it is suspended at the yield that gave the last one.    *)

\* the generator is suspended at a yield: of a token (agent.py line 169), of
\* a command (189), of the maximum iterations token (205) or of done (173,
\* 206)
AtYield ==
    \/ pc = "streaming" /\ streamed # <<>> /\ streamed[Len(streamed)] # <<>>
    \/ pc \in {"yield_command", "yield_max", "done"}

\* the caller stops consuming at the event it was just given; the generator
\* stays where it is (fault tells that it was abandoned)
Cancel ==
    /\ AtYield
    /\ fault = "none"
    /\ fault' = "cancelled"
    /\ UNCHANGED <<pc, messages, events, iteration, max_iterations, file_id,
                   history, tool_calls, tool_idx, result, next_call_id,
                   chunks_left, model_calls, streamed, tools_run,
                   norm_vars, conv_vars,
                   race_vars, store_vars>>

\* a variant of Resumed in which the run goes on after the caller stopped
ResumedRegardless == Next

\* the generator takes its next step only when the caller asks for the next
\* event
Resumed == fault # "cancelled" /\ Next

CancelNext == Resumed \/ Cancel

CancelSpec == Init /\ [][CancelNext]_vars

-----------------------------------------------------------------------------
(* Specification of the /ask route: main.ask_question handles one question *)
(* while uploads and resets are served by other threads.                   *)
(* The locals of the handler are held in the variables of the agent loop;  *)
(* file_id is the active file id the handler saw when it took the question *)
(* (main.py line 119), result tells the file id the last tool execution    *)
(* was given and events holds the answer returned.                         *)

\* the tool requests the model may make of the three tools /ask offers, and
\* of a name it does not offer
AskRequests == <<
    [name |-> "list_available_tables", arguments |-> Args([file_id |-> IdB])],
    [name |-> "get_table_schema",
     arguments |-> Args([table_name |-> TableName(IdA, ATT)])],
    [name |-> "get_table_schema",
     arguments |-> Args([table_name |-> LogPrefix \o <<"x">>])],
    [name |-> "query_sql",
     arguments |-> Args([sql |-> [op |-> "select", table |-> TableName(IdA, ATT)]])],
    [name |-> "seek_to_timestamp", arguments |-> Args([timestamp_ms |-> 5])] >>

AskToolCallLists(n) ==
    {[i \in 1..n |-> [id |-> i, name |-> AskRequests[ks[i]].name,
                      arguments |-> AskRequests[ks[i]].arguments]] :
        ks \in [1..n -> 1..Len(AskRequests)]}

AnswerEvent(kind) == [type |-> "answer", content |-> kind]

\* main.py lines 214-224: the dispatch on function_name, given the value the
\* global current_file_id has when the call is executed
AskDispatch(tbls, name, args, active_id) ==
    CASE name = "list_available_tables" -> list_available_tables(tbls, active_id)
      [] name = "get_table_schema"  -> get_table_schema(tbls, args.table_name)
      [] name = "query_sql"         -> query_sql(tbls, args.sql, TRUE)
      [] OTHER                      -> ErrorResult("Unknown function")

AskInit ==
    /\ pc = "ask_start"
    /\ messages = <<>>
    /\ events = <<>>
    /\ iteration = 0
    /\ max_iterations = 0
    /\ file_id = NoneId
    /\ history = <<>>
    /\ tool_calls = <<>>
    /\ tool_idx = 0
    /\ result = NoResult
    /\ next_call_id = 1
    /\ chunks_left = 0
    /\ model_calls = <<>>
    /\ streamed = <<>>
    /\ fault = "none"
    /\ tools_run = 0
    /\ tables \in {{}, ingest_and_normalize({}, RawSmall, IdA).tables}
    /\ current_file_id = IF tables = {} THEN NoneId ELSE IdA
    /\ store_result = NoResult
    /\ store_ops = 0
    /\ NormIdle
    /\ ConvIdle
    /\ RaceIdle

\* main.py lines 110-114: no file is active
AskNoFile ==
    /\ pc = "ask_start"
    /\ current_file_id = NoneId
    /\ events' = <<AnswerEvent("no file uploaded")>>
    /\ pc' = "done"
    /\ UNCHANGED <<messages, iteration, max_iterations, file_id, history,
                   tool_calls, tool_idx, result, next_call_id, chunks_left,
                   model_calls, streamed, fault, tools_run, norm_vars, conv_vars,
                   race_vars, store_vars>>

\* main.py lines 110-182: a file is active; the transcript is built
AskAccept ==
    /\ pc = "ask_start"
    /\ current_file_id # NoneId
    /\ file_id' = current_file_id
    /\ messages' = <<[role |-> "system", content |-> [text |-> "system prompt"]],
                     [role |-> "user", content |-> [text |-> "question"]]>>
    /\ pc' = "ask_call"
    /\ UNCHANGED <<events, iteration, max_iterations, history,
                   tool_calls, tool_idx, result, next_call_id, chunks_left,
                   model_calls, streamed, fault, tools_run, norm_vars, conv_vars,
                   race_vars, store_vars>>

\* main.py lines 185-193 and 259-264: a model call raises; the except branch
\* returns the error as the answer
AskModelRaises ==
    /\ pc \in {"ask_call", "ask_second"}
    /\ model_calls' = Append(model_calls, ModelCall(FALSE, pc = "ask_call"))
    /\ fault' = "model"
    /\ events' = <<AnswerEvent("Error")>>
    /\ pc' = "done"
    /\ UNCHANGED <<messages, iteration, max_iterations, file_id, history,
                   tool_calls, tool_idx, result, next_call_id, chunks_left,
                   streamed, tools_run, norm_vars, conv_vars,
                   race_vars, store_vars>>

\* main.py lines 185-193 and 247-257: the response carries no tool call
AskModelDirect ==
    /\ pc = "ask_call"
    /\ model_calls' = Append(model_calls, ModelCall(FALSE, TRUE))
    /\ events' = <<AnswerEvent("answer")>>
    /\ pc' = "done"
    /\ UNCHANGED <<messages, iteration, max_iterations, file_id, history,
                   tool_calls, tool_idx, result, next_call_id, chunks_left,
                   streamed, fault, tools_run, norm_vars, conv_vars,
                   race_vars, store_vars>>

\* main.py lines 185-201: the response carries tool calls
AskModelTools ==
    /\ pc = "ask_call"
    /\ \E n \in 1..MaxToolCalls :
        \E tcs \in AskToolCallLists(n) :
            /\ tool_calls' = tcs
            /\ messages' = Append(messages, [role |-> "assistant", tool_calls |-> tcs])
    /\ model_calls' = Append(model_calls, ModelCall(FALSE, TRUE))
    /\ tool_idx' = 1
    /\ pc' = "ask_tools"
    /\ UNCHANGED <<events, iteration, max_iterations, file_id, history, result,
                   next_call_id, chunks_left, streamed, fault, tools_run,
                   norm_vars, conv_vars,
                   race_vars, store_vars>>

\* what executing the current tool call of /ask gives, the global
\* current_file_id being read when the call is executed (main.py line 216)
AskToolResult ==
    LET call == tool_calls[tool_idx] IN
    IF ~call.arguments.valid THEN Raised("JSONDecodeError")
    ELSE IF ~(RequiredKey(call.name) \cap {"table_name", "sql"}
                \subseteq DOMAIN call.arguments.args)
         THEN Raised("KeyError")
         ELSE AskDispatch(tables, call.name, call.arguments.args, current_file_id)

\* main.py lines 204-224 and 259-264: the tool raises; the except branch
\* returns the error as the answer
AskExecToolRaises ==
    /\ pc = "ask_tools"
    /\ AskToolResult.kind = "raise"
    /\ result' = [op |-> "tool", name |-> tool_calls[tool_idx].name,
                  file_id |-> current_file_id]
    /\ tools_run' = tools_run + 1
    /\ fault' = "tool"
    /\ events' = <<AnswerEvent("Error")>>
    /\ pc' = "done"
    /\ UNCHANGED <<messages, iteration, max_iterations, file_id, history,
                   tool_calls, tool_idx, next_call_id, chunks_left,
                   model_calls, streamed, norm_vars, conv_vars,
                   race_vars, store_vars>>

\* main.py lines 204-238: the tool returns; its result is appended
AskExecTool ==
    /\ pc = "ask_tools"
    /\ AskToolResult.kind # "raise"
    /\ result' = [op |-> "tool", name |-> tool_calls[tool_idx].name,
                  file_id |-> current_file_id]
    /\ messages' = Append(messages, ToolMessage(tool_calls[tool_idx], AskToolResult))
    /\ tools_run' = tools_run + 1
    /\ IF tool_idx < Len(tool_calls)
       THEN tool_idx' = tool_idx + 1 /\ pc' = "ask_tools"
       ELSE tool_idx' = tool_idx /\ pc' = "ask_second"
    /\ UNCHANGED <<events, iteration, max_iterations, file_id, history,
                   tool_calls, next_call_id, chunks_left,
                   model_calls, streamed, fault, norm_vars, conv_vars,
                   race_vars, store_vars>>

\* main.py lines 240-257: the second model call gives the answer
AskSecondCall ==
    /\ pc = "ask_second"
    /\ model_calls' = Append(model_calls, ModelCall(FALSE, FALSE))
    /\ events' = <<AnswerEvent("answer")>>
    /\ pc' = "done"
    /\ UNCHANGED <<messages, iteration, max_iterations, file_id, history,
                   tool_calls, tool_idx, result, next_call_id, chunks_left,
                   streamed, fault, tools_run, norm_vars, conv_vars,
                   race_vars, store_vars>>

\* the handler's steps, and the uploads and resets other threads serve
AskNext ==
    \/ AskNoFile
    \/ AskAccept
    \/ AskModelRaises
    \/ AskModelDirect
    \/ AskModelTools
    \/ AskExecToolRaises
    \/ AskExecTool
    \/ AskSecondCall
    \/ save_data
    \/ reset_database
    \/ reset_database_fails

AskSpec == AskInit /\ [][AskNext]_vars

-----------------------------------------------------------------------------
(* Claims about the normalizer (checked under NormSpec).                   *)

\* the fields of a block that are mappings or sequences
RetainedIdx(md) == {i \in 1..Len(md) : md[i].val.kind \in {"dict", "list"}}

\* the number of samples of a field, as given
Samples(val) == IF val.kind = "dict" THEN Len(val.items) ELSE Len(val.vals)

\* the number a key text of this model denotes
KeyNumber(k) == IF k = <<0>> THEN 0 ELSE IF k = <<2>> THEN 2 ELSE 10

\* the value a field holds at position p: the p-th element of a sequence, the
\* value with the p-th smallest key of a mapping
OriginalAt(val, p) ==
    IF val.kind = "list" THEN val.vals[p]
    ELSE LET it == CHOOSE x \in Range(val.items) :
                     Cardinality({y \in Range(val.items) :
                                    KeyNumber(y.k) < KeyNumber(x.k)}) = p - 1
         IN  it.v

LongestField(md) == SetMax({Samples(md[i].val) : i \in RetainedIdx(md)})

\* the retained fields of the block differ in length
Ragged(md) ==
    \E i, j \in RetainedIdx(md) : Samples(md[i].val) # Samples(md[j].val)

\* C10: for a block whose retained fields differ in length, every column of
\* the table the normalizer returns is as long as the longest retained field;
\* a field keeps its values at their positions and holds null at every
\* position past its own length.
C10_PaddedToLongest ==
    (norm_pc = "done" /\ Ragged(message_data)) =>
        /\ DOMAIN df.data = {message_data[i].name : i \in RetainedIdx(message_data)}
        /\ \A i \in RetainedIdx(message_data) :
             LET col == df.data[message_data[i].name]
                 val == message_data[i].val
             IN  /\ Len(col) = LongestField(message_data)
                 /\ \A p \in 1..Len(col) :
                      col[p] = IF p <= Samples(val) THEN OriginalAt(val, p) ELSE Null

\* a ragged block was normalized: a mapping given out of key order is shorter
\* than a sequence and was padded
C10_Witness ==
    /\ norm_pc = "done"
    /\ \E i, j \in RetainedIdx(message_data) :
         /\ message_data[i].val.kind = "dict"
         /\ message_data[i].val.items # <<>>
         /\ message_data[j].val.kind = "list"
         /\ Samples(message_data[i].val) < Samples(message_data[j].val)
         /\ df.data[message_data[i].name][Len(df.data[message_data[j].name])] = Null

\* the key under which a mapping holds value v (the values of a mapping of
\* this model are distinct)
KeyOf(val, v) == (CHOOSE x \in Range(val.items) : x.v = v).k

\* C11: a field given as a mapping from index keys to values comes out with
\* its values in the order of the numbers its keys denote, whatever the order
\* of insertion and whatever the order of the key texts.
C11_NumericKeyOrder ==
    norm_pc = "done" =>
        \A i \in RetainedIdx(message_data) :
            LET val == message_data[i].val
                col == df.data[message_data[i].name]
            IN  val.kind = "dict" =>
                  /\ {col[p] : p \in 1..Samples(val)} =
                        {x.v : x \in Range(val.items)}
                  /\ \A p, q \in 1..Samples(val) :
                        p < q => KeyNumber(KeyOf(val, col[p])) <
                                   KeyNumber(KeyOf(val, col[q]))

\* a mapping inserted under "10" and then "2" was normalized: the value of
\* "2" comes first
C11_Witness ==
    /\ norm_pc = "done"
    /\ \E i \in RetainedIdx(message_data) :
         /\ message_data[i].val.kind = "dict"
         /\ Len(message_data[i].val.items) >= 2
         /\ message_data[i].val.items[1].k = <<1, 0>>
         /\ message_data[i].val.items[2].k = <<2>>
         /\ df.data[message_data[i].name][1] = KeyValue(<<2>>)
         /\ df.data[message_data[i].name][2] = KeyValue(<<1, 0>>)

-----------------------------------------------------------------------------
(* Claims about the store and its tools (checked under StoreSpec, those    *)
(* about seek-to-mode under ModeSpec).                                     *)

\* sanitize: brackets and hyphens become underscores
Sanitize(text) ==
    [i \in 1..Len(text) |-> IF text[i] \in {"[", "]", "-"} THEN "_" ELSE text[i]]

\* the name with the file id sanitized and the message type as given
NameWithTypeAsGiven(fid, msg_type) ==
    LogPrefix \o Sanitize(fid) \o <<"_">> \o msg_type

\* the name with the file id and the message type sanitized
NameSanitized(fid, msg_type) ==
    LogPrefix \o Sanitize(fid) \o <<"_">> \o Sanitize(msg_type)

\* a block with no sample: no field is a mapping or a sequence with an element
EmptyBlock(md) == LongestField(md) = 0

\* the message types of a raw log that are to become tables
Materialized(raw) ==
    {i \in 1..Len(raw.messages) :
        raw.messages[i].type # FILE /\ ~EmptyBlock(raw.messages[i].block)}

\* the last operation was an ingest that succeeded
IngestSucceeded ==
    store_result.op \in {"ingest", "upload"} /\ ~store_result.error

\* a successful ingest left the tables it found as they were and added one
\* table for each message type to materialize, named Name(file id, type),
\* with as many rows as the longest field of the block
CreatedTables(Name(_, _)) ==
    LET raw == RawLog(store_result.raw)
        fid == store_result.file_id
        new == tables \ store_result.before
    IN  /\ store_result.before \subseteq tables
        /\ Cardinality(new) = Cardinality(Materialized(raw))
        /\ \A t \in new : t.owner = fid
        /\ \A i \in Materialized(raw) :
             \E t \in new :
                /\ t.name = Name(fid, raw.messages[i].type)
                /\ NumRows(t) = LongestField(raw.messages[i].block)
        /\ \A i \in 1..Len(raw.messages) \ Materialized(raw) :
             \A t \in new : t.msg # raw.messages[i].type

\* C12 as stated: a successful ingest creates exactly one table for each
\* message type that is not FILE and whose block is not empty, named
\* log_ + sanitize(file id) + _ + message type, with as many rows as the
\* longest field; it creates none for FILE or an empty block and leaves the
\* tables of other file ids alone.
C12_IngestCreatesTables ==
    IngestSucceeded => CreatedTables(NameWithTypeAsGiven)

\* C12 as amended: the same, the message type being sanitized in the name as
\* the file id is.
C12_IngestCreatesSanitizedTables ==
    IngestSucceeded => CreatedTables(NameSanitized)

\* a log with the message type G[0], a scalar-only block and a block without
\* samples was ingested into a store that held tables: one table was added
C12_Witness ==
    /\ IngestSucceeded
    /\ store_result.raw = "RawGps"
    /\ store_result.before # {}
    /\ Cardinality(tables \ store_result.before) = 1

\* the code of a mode name, matched without regard to case, or -1
CodeOfMode(mode_name) ==
    CASE mode_name \in {"loiter", "LOITER"} -> 5
      [] mode_name \in {"rtl", "RTL"} -> 6
      [] mode_name \in {"auto", "AUTO"} -> 3
      [] OTHER -> 0 - 1

\* the mode-transition tables of file id fid
ModeTables(tbls, fid) == {t \in tbls : t.owner = fid /\ t.msg = HeartbeatName}

\* the times of the rows of t that carry the code
TimesOfCode(t, code) ==
    {NumOf(t.data["time_boot_ms"][r]) :
        r \in {q \in 1..NumRows(t) : t.data["custom_mode"][q] \in {"3", "5", "6"}
                                      /\ NumOf(t.data["custom_mode"][q]) = code}}

\* what the claim has seek-to-mode return under file id ctx: never a raise
SeekToModeAsClaimed(v, tbls, ctx, mode_name) ==
    LET code == CodeOfMode(mode_name)
        times == UNION {TimesOfCode(t, code) : t \in ModeTables(tbls, ctx)}
    IN  IF code < 0 \/ times = {}
        THEN v.kind = "error"
        ELSE /\ v.kind = "command"
             /\ v.action = "seek_to_timestamp"
             /\ v.params.timestamp \in times
             /\ \A x \in times : v.params.timestamp <= x

\* C17: seek-to-mode returns a seek command whose timestamp is the smallest
\* time_boot_ms of the active file's mode-transition rows that carry the code
\* of the named mode; for a mode name outside the enumeration, a mode without
\* such a row and a missing mode table it returns an error; it never raises.
C17_SeekToMode ==
    store_result.op = "seek_to_mode" =>
        SeekToModeAsClaimed(store_result.value, store_result.before,
                            store_result.ctx, store_result.mode_name)

\* the same when a file is active whose id has the shape the upload route
\* mints
C17_SeekToModeActiveFile ==
    (store_result.op = "seek_to_mode" /\ store_result.ctx \in UuidIds
       /\ \A t \in store_result.before : t.owner \in UuidIds) =>
        SeekToModeAsClaimed(store_result.value, store_result.before,
                            store_result.ctx, store_result.mode_name)

\* the message types of which the tables added by the last operation were made
NewTypes == {t.msg : t \in tables \ store_result.before}

\* the ingestion stopped at message k of the log: the types to materialize
\* before k became tables, type k and the types after it did not
StoppedAt(raw, k) ==
    /\ k \in Materialized(raw)
    /\ \A i \in 1..Len(raw.messages) :
         raw.messages[i].type \in NewTypes <=> (i < k /\ i \in Materialized(raw))

\* the ingestion of the last operation stopped at one of its message types
IngestStopped ==
    \E k \in 1..Len(RawLog(store_result.raw).messages) :
        StoppedAt(RawLog(store_result.raw), k)

\* the last step was an ingestion, alone or within an upload, that failed
IngestFailedNow ==
    /\ store_ops' = store_ops + 1
    /\ store_result'.op \in {"ingest", "upload"}
    /\ store_result'.error

\* C18: when materializing a message type fails, the ingestion fails as a
\* whole: no later message type is materialized and the tables found are as
\* they were; an upload reports the error and leaves the active file id as
\* it was.
C18_IngestFailsAsAWhole ==
    [][IngestFailedNow =>
        /\ store_result'.before = tables
        /\ tables \subseteq tables'
        /\ IngestStopped'
        /\ store_result'.op = "upload" => current_file_id' = current_file_id
      ]_vars

\* an upload failed at its third message type after two tables were made,
\* while an earlier upload's file was active: that file is still the active one
C18_Witness ==
    /\ store_result.op = "upload"
    /\ store_result.error
    /\ Cardinality(tables \ store_result.before) = 2
    /\ current_file_id \in UuidIds
    /\ current_file_id # store_result.file_id
    /\ PARM \notin NewTypes

\* C7: list-tables, dispatched under the session's file id, returns no table
\* that was made from another file id, whatever id the arguments name.
C7_ListTablesOwnFileOnly ==
    (store_result.op = "list" /\ store_result.value.kind = "tables") =>
        \A n \in store_result.value.tables :
            TableOf(tables, n).owner = store_result.ctx

\* the same for file ids of the shape the upload route mints
C7_ListTablesOwnFileOnlyUuid ==
    (/\ store_result.op = "list"
     /\ store_result.value.kind = "tables"
     /\ \A t \in tables : t.owner \in UuidIds) =>
        \A n \in store_result.value.tables :
            TableOf(tables, n).owner = store_result.ctx

\* C8: query_sql never raises. It returns an envelope that either reports
\* success, with the rows, the columns and a row count equal to the number of
\* rows, or reports failure, with an error message and the statement it was
\* given; any statement is executed, whatever its type.
C8_QuerySqlEnvelope ==
    store_result.op = "query_sql" =>
        LET v == store_result.value
            sql == store_result.sql
            before == store_result.before
        IN  /\ v.kind = "sql"
            /\ v.success =>
                 /\ v.row_count = Len(v.data)
                 /\ \A r \in 1..Len(v.data) : Len(v.data[r]) = Len(v.columns)
            /\ ~v.success =>
                 /\ v.error # ""
                 /\ v.sql = sql
                 /\ v.row_count = 0
            /\ (sql.op = "drop" /\ sql.table \in TableNames(before)) =>
                 tables = {t \in before : t.name # sql.table}
            /\ (sql.op = "select" /\ sql.table \in TableNames(before)) =>
                 /\ v.success
                 /\ v.row_count = NumRows(TableOf(before, sql.table))

\* a SELECT returned the two rows of a table with one column
C8_Witness ==
    /\ store_result.op = "query_sql"
    /\ store_result.value.success
    /\ store_result.value.row_count = 2
    /\ Len(store_result.value.columns) = 1

-----------------------------------------------------------------------------
(* Claims about the agent loop (checked under Spec).                       *)

IsToken(e) == e.type = "token"
IsDone(e) == e.type = "done"
IsCommandEvent(e) == e.type = "command"

\* the token events emitted so far
Tokens == SelectSeq(events, IsToken)

\* the text the token events spell
TokenText == Concat([i \in 1..Len(Tokens) |-> Tokens[i].content])

\* the run is over: the generator returned, or raised
Stopped == pc \in {"done", "failed"}

\* the non-streaming model calls made so far
NonStreamingCalls == {i \in 1..Len(model_calls) : ~model_calls[i].stream}

\* the assistant messages of the transcript that request tools
ToolResponses ==
    {i \in 1..Len(messages) :
        messages[i].role = "assistant" /\ "tool_calls" \in DOMAIN messages[i]}

\* the tool messages of the transcript
ToolMessages == {i \in 1..Len(messages) : messages[i].role = "tool"}

\* the first model response carried no tool call: the second model call is the
\* streaming one
AnsweredWithoutTools ==
    /\ Len(model_calls) = 2
    /\ ~model_calls[1].stream
    /\ model_calls[2].stream

\* C1: when the first response carries no tool call, the run emits a non-empty
\* run of token events and then exactly one done event, and the tokens spell
\* the answer the model gave.
C1_AnswerWithoutTools ==
    (Stopped /\ AnsweredWithoutTools) =>
        /\ Len(events) >= 2
        /\ IsDone(events[Len(events)])
        /\ \A i \in 1..(Len(events) - 1) : IsToken(events[i])
        /\ TokenText = Concat(streamed)

\* C2: once the tool calls of an iteration were processed, the transcript ends
\* with the assistant message that requested them and one tool message for
\* each call, in the order of the calls, each carrying the id of its call.
C2_ToolMessagesMatchCalls ==
    (tool_calls # <<>> /\ pc \notin {"tools", "yield_command"}) =>
        LET n == Len(tool_calls)
            m == Len(messages)
        IN  /\ m > n
            /\ messages[m - n].role = "assistant"
            /\ "tool_calls" \in DOMAIN messages[m - n]
            /\ messages[m - n].tool_calls = tool_calls
            /\ \A i \in 1..n :
                 /\ messages[m - n + i].role = "tool"
                 /\ messages[m - n + i].tool_call_id = tool_calls[i].id

\* C3: when each of the max_iterations responses carried tool calls, no model
\* call is made beyond them, and the run ends with exactly one token, the
\* explanatory one, followed by done.
C3_MaxIterationsExit ==
    (Cardinality(ToolResponses) = max_iterations) =>
        /\ Len(model_calls) <= max_iterations
        /\ Stopped =>
             /\ Tokens = <<TokenEvent(MaxIterationsMessage)>>
             /\ IsDone(events[Len(events)])
             /\ Cardinality({i \in 1..Len(events) : IsDone(events[i])}) = 1

\* C4: every run goes on until it reaches its done state, with at most
\* max_iterations non-streaming model calls.
C4_RunReachesDone ==
    /\ Cardinality(NonStreamingCalls) <= max_iterations
    /\ pc # "done" => ENABLED Next

\* C5: a model call that fails is caught by the loop: nothing propagates to
\* the caller, and the stream ends with one friendly token and done.
C5_ModelFailureCaught ==
    fault = "model" =>
        /\ pc # "failed"
        /\ pc = "done" =>
             /\ Len(events) >= 2
             /\ IsDone(events[Len(events)])
             /\ IsToken(events[Len(events) - 1])

\* C6: every tool call executed is folded into the transcript as a tool
\* message; no failure of a tool leaves execute_tool.
C6_ToolResultAlwaysFolded ==
    /\ fault # "tool"
    /\ Cardinality(ToolMessages) + (IF pc = "yield_command" THEN 1 ELSE 0) = tools_run

\* the loop is about to execute a seek_to_timestamp call
AtSeekToTimestamp ==
    /\ pc = "tools"
    /\ tool_calls[tool_idx].name = "seek_to_timestamp"
    /\ tool_calls[tool_idx].arguments.valid
    /\ "timestamp_ms" \in DOMAIN tool_calls[tool_idx].arguments.args

\* C9: a seek_to_timestamp call with a negative timestamp emits no event and
\* appends the call's tool message holding the error; with a timestamp >= 0
\* it emits a command whose timestamp is the one given.
C9_SeekToTimestamp ==
    [][AtSeekToTimestamp =>
        LET call == tool_calls[tool_idx]
            ts == call.arguments.args.timestamp_ms
        IN  IF ts < 0
            THEN /\ events' = events
                 /\ pc' # "failed"
                 /\ messages' = Append(messages,
                        [role |-> "tool", tool_call_id |-> call.id,
                         name |-> "seek_to_timestamp",
                         content |-> JsonDumps(ErrorResult("Timestamp cannot be negative"))])
            ELSE /\ events' = Append(events,
                        [type |-> "command", action |-> "seek_to_timestamp",
                         params |-> [timestamp |-> ts]])
                 /\ pc' = "yield_command"]_vars

\* the command events emitted so far
CommandEvents == SelectSeq(events, IsCommandEvent)

\* the tool messages of the transcript whose content is a command, in order
IsCommandMessage(m) == m.role = "tool" /\ m.content.json.kind = "command"
CommandMessages == SelectSeq(messages, IsCommandMessage)

\* the tool messages answering the last assistant message that requested tools
AnswersSoFar ==
    LET a == SetMax(ToolResponses)
    IN  SubSeq(messages, a + 1, Len(messages))

\* C13: events and transcript follow the order of the tool calls. A command
\* event is emitted when the tool messages of all earlier calls of the
\* iteration were appended and the message of its own call was not; the tool
\* message of a call whose result is a command is appended when that command
\* is the last event emitted; so the command events are, in order, the
\* commands of the tool messages, plus the one whose message is still to come.
C13_CommandsInCallOrder ==
    [][/\ (events' # events /\ IsCommandEvent(events'[Len(events')])) =>
            /\ messages' = messages
            /\ ToolResponses # {}
            /\ Len(AnswersSoFar) = tool_idx - 1
            /\ \A i \in 1..Len(AnswersSoFar) :
                 /\ AnswersSoFar[i].role = "tool"
                 /\ AnswersSoFar[i].tool_call_id = tool_calls[i].id
            /\ events' = Append(events, CommandEvent(result'))
       /\ (messages' # messages /\ IsCommandMessage(messages'[Len(messages')])) =>
            /\ events' = events
            /\ events # <<>>
            /\ events[Len(events)] =
                 CommandEvent(messages'[Len(messages')].content.json)
            /\ messages'[Len(messages')].tool_call_id = tool_calls[tool_idx].id
       /\ CommandEvents' =
            [i \in 1..Len(CommandMessages') |->
                CommandEvent(CommandMessages'[i].content.json)]
            \o (IF pc' = "yield_command" THEN <<CommandEvent(result')>> ELSE <<>>)
      ]_vars

\* two calls of one iteration gave different commands: both were emitted and
\* folded into the transcript, in the order of the calls
C13_Witness ==
    /\ Len(tool_calls) = 2
    /\ Len(CommandEvents) = 2
    /\ CommandEvents[1] # CommandEvents[2]
    /\ Len(CommandMessages) = 2
    /\ CommandMessages[1].tool_call_id = tool_calls[1].id
    /\ CommandMessages[2].tool_call_id = tool_calls[2].id
    /\ CommandEvents[1] = CommandEvent(CommandMessages[1].content.json)

\* message j of transcript t answers the nearest assistant message before it
\* that requests tools: one exists, only tool messages lie between the two,
\* and the id of message j is the id of one of the calls requested
AnswersNearestRequest(t, j) ==
    \E a \in 1..(j - 1) :
        /\ t[a].role = "assistant"
        /\ "tool_calls" \in DOMAIN t[a]
        /\ \A k \in (a + 1)..(j - 1) : t[k].role = "tool"
        /\ \E c \in 1..Len(t[a].tool_calls) :
             t[a].tool_calls[c].id = t[j].tool_call_id

\* C14: in every transcript given to the model, each tool message carries the
\* id of a tool call of the nearest assistant message before it, with only
\* tool messages in between; no tool message lacks such an assistant message.
\* (Each transcript is examined in the states where it is the one given
\* last; the record of a model call never changes afterwards.)
C14_ToolMessagesAnswerRequests ==
    model_calls # <<>> =>
        LET t == model_calls[Len(model_calls)].messages
        IN  \A j \in 1..Len(t) : t[j].role = "tool" => AnswersNearestRequest(t, j)

\* the model was given a transcript that ends with two tool messages, the
\* answers to the two calls of one assistant message
C14_Witness ==
    \E c \in 1..Len(model_calls) :
        LET t == model_calls[c].messages
            n == Len(t)
        IN  /\ n >= 3
            /\ t[n].role = "tool"
            /\ t[n - 1].role = "tool"
            /\ t[n - 2].role = "assistant"
            /\ t[n].tool_call_id # t[n - 1].tool_call_id

\* the tool names the executor has a handler for
HandledNames ==
    {"list_available_tables", "get_table_schema", "query_sql",
     "control_playback", "seek_to_timestamp", "seek_to_mode"}

\* the dispatch is about to be entered with a name that has no handler
AtUnhandledName ==
    /\ pc = "tools"
    /\ tool_calls[tool_idx].arguments.valid
    /\ tool_calls[tool_idx].name \notin HandledNames

UiTools == {"control_playback", "seek_to_timestamp", "toggle_ui", "create_plot"}

\* the arguments of a call of a user interface tool are as the catalog
\* declares them
ValidUiCall(call) ==
    /\ call.name \in UiTools
    /\ call.arguments.valid
    /\ CASE call.name = "control_playback" ->
               /\ "action" \in DOMAIN call.arguments.args
               /\ call.arguments.args.action \in PlaybackActions
         [] call.name = "seek_to_timestamp" ->
               /\ "timestamp_ms" \in DOMAIN call.arguments.args
               /\ call.arguments.args.timestamp_ms >= 0
         [] call.name = "toggle_ui" ->
               /\ {"component", "visible"} \subseteq DOMAIN call.arguments.args
               /\ call.arguments.args.component \in {"plot", "chat", "map"}
               /\ call.arguments.args.visible \in BOOLEAN
         [] call.name = "create_plot" ->
               /\ {"file_id", "fields"} \subseteq DOMAIN call.arguments.args
               /\ call.arguments.args.fields # <<>>

\* tool message j answers a valid call of a user interface tool
AnswersValidUiCall(j) ==
    \E a \in ToolResponses :
        \E c \in 1..Len(messages[a].tool_calls) :
            /\ messages[a].tool_calls[c].id = messages[j].tool_call_id
            /\ ValidUiCall(messages[a].tool_calls[c])

\* C16: each of the four user interface tools of the catalog, called with
\* valid arguments, gives a command, which was emitted as a command event.
C16_UiToolsYieldCommands ==
    \A j \in ToolMessages :
        AnswersValidUiCall(j) =>
            /\ messages[j].content.json.kind = "command"
            /\ \E e \in 1..Len(events) :
                 events[e] = CommandEvent(messages[j].content.json)

\* C19: within one question every tool execution is given the same file id,
\* the one that was active when the question was taken, whatever uploads and
\* resets did to the active file id since.
C19_ToolsUseAcceptedFileId ==
    (result.op = "tool" /\ result.name = "list_available_tables") =>
        result.file_id = file_id

\* C20: with no active file id the question is not failed and no tool is
\* executed: every model call is given a system message with the no-data
\* notice, and the run ends with done (stated for the runs in which no model
\* call fails).
C20_NoFileNoTools ==
    (file_id = NoneId /\ fault # "model") =>
        /\ tools_run = 0
        /\ \A c \in 1..Len(model_calls) :
             model_calls[c].messages[1].content.prompt = "no_file"
        /\ Stopped => (pc = "done" /\ IsDone(events[Len(events)]))

\* the part of C20 the code decides alone: the no-data notice is in the system
\* message of every model call of a run without file id
C20_NoFileNotice ==
    file_id = NoneId =>
        \A c \in 1..Len(model_calls) :
            /\ model_calls[c].messages[1].role = "system"
            /\ model_calls[c].messages[1].content.prompt = "no_file"

\* the rows in the order they were saved (ids grow with every save)
InSaveOrder(rows) ==
    CHOOSE s \in [1..Cardinality(rows) -> rows] :
        \A i, j \in 1..Cardinality(rows) : i < j => s[i].id < s[j].id

\* the last n messages saved under the session, oldest first
MostRecent(rows, session_id, n) ==
    LET saved == InSaveOrder(OfSession(rows, session_id))
        k     == IF Len(saved) < n THEN Len(saved) ELSE n
    IN  [i \in 1..k |-> [role |-> saved[Len(saved) - k + i].role,
                         content |-> saved[Len(saved) - k + i].content]]

\* C26: get_conversation(session, N) returns the N messages most recently
\* saved under the session (all of them when there are fewer), oldest first
\* in the order they were saved, also when messages carry the same timestamp.
C26_MostRecentInSaveOrder ==
    conv_result.op = "get" =>
        conv_result.value =
            MostRecent(conversation, conv_result.session_id, conv_result.limit)

\* C26, when no two messages of the session carry the same timestamp.
C26_MostRecentDistinctTimestamps ==
    (/\ conv_result.op = "get"
     /\ \A r1, r2 \in OfSession(conversation, conv_result.session_id) :
            r1 # r2 => r1.timestamp # r2.timestamp) =>
        conv_result.value =
            MostRecent(conversation, conv_result.session_id, conv_result.limit)

\* the last operation was an ingestion, whether it succeeded or not
Ingested == store_result.op \in {"ingest", "upload"}

\* C29: in an ingestion no two distinct message types to materialize map to
\* the same table name, and no message type maps to the name of a table the
\* store holds from another (file id, message type) pair.  Checked under
\* StoreSpec.
C29_NamingCollisionFree ==
    Ingested =>
        LET raw == RawLog(store_result.raw)
            fid == store_result.file_id
        IN  /\ \A i, j \in Materialized(raw) :
                raw.messages[i].type # raw.messages[j].type =>
                    TableName(fid, raw.messages[i].type)
                        # TableName(fid, raw.messages[j].type)
            /\ \A i \in Materialized(raw) :
                \A t \in store_result.before :
                    <<t.owner, t.msg>> # <<fid, raw.messages[i].type>> =>
                        t.name # TableName(fid, raw.messages[i].type)

\* C29, for the ids uploads mint and the message types of one log whose
\* names differ after sanitizing: no two (file id, message type) pairs map
\* to the same table name.
C29_NamingCollisionFreeUploads ==
    (/\ store_result.op = "upload"
     /\ store_result.raw # "RawClash"
     /\ \A t \in store_result.before : t.owner \in UuidIds) =>
        LET raw == RawLog(store_result.raw)
            fid == store_result.file_id
        IN  /\ \A i, j \in Materialized(raw) :
                raw.messages[i].type # raw.messages[j].type =>
                    TableName(fid, raw.messages[i].type)
                        # TableName(fid, raw.messages[j].type)
            /\ \A i \in Materialized(raw) :
                \A t \in store_result.before :
                    <<t.owner, t.msg>> # <<fid, raw.messages[i].type>> =>
                        t.name # TableName(fid, raw.messages[i].type)

\* no upload and no reset is being served
Quiescent ==
    /\ requests.upload.pc = "idle"
    /\ requests.reset.pc = "idle"

\* every table of the store was made by an upload whose ingestion succeeded,
\* and no reset failed half-way: what is left is no remainder of a failure
NoFailureRemains ==
    \A t \in tables : t.owner \in {u.file_id : u \in requests.uploaded}

\* C30: when every upload and reset request has completed, the active file
\* id is absent or is the id of a successfully ingested upload whose tables
\* are all in the store, and the store holds no table when no file is
\* active.  Checked under RaceSpec, for the tables of uploads that succeeded.
C30_ActiveFileHasItsTables ==
    (Quiescent /\ NoFailureRemains) =>
        /\ current_file_id # NoneId =>
            \E u \in requests.uploaded :
                /\ u.file_id = current_file_id
                /\ u.names \subseteq TableNames(tables)
        /\ current_file_id = NoneId => tables = {}

\* C30, the part that holds in every interleaving: when no request is being
\* served, an active file id is the id of an upload whose ingestion succeeded.
C30_ActiveFileIsUploaded ==
    (Quiescent /\ current_file_id # NoneId) =>
        current_file_id \in {u.file_id : u \in requests.uploaded}

\* a field value of a shape the normalizer knows: an index-keyed mapping or a
\* sequence
IsRecognized(f) ==
    \/ f.val.kind = "list"
    \/ /\ f.val.kind = "dict"
       /\ \A i \in 1..Len(f.val.items) : IsIndexKey(f.val.items[i].k)

\* the block without the fields of any other shape
WithoutUnrecognized(md) == SelectSeq(md, IsRecognized)

\* C25: a field whose value is neither an index-keyed mapping nor a sequence
\* never makes normalization fail, and the table is the one the block
\* without such fields gives (so such a field is no column and does not
\* count towards the maximum length).
C25_UnrecognizedFieldsDropped ==
    norm_pc # "input" =>
        /\ norm_pc = "done"
        /\ df = normalize_message_type(WithoutUnrecognized(message_data))

\* C25, for the values that are no mapping at all (a number, a string, None):
\* a block whose mappings are all index-keyed is normalized as the block
\* without those values is.
C25_ScalarFieldsDropped ==
    (norm_pc # "input" /\ ~NormalizeRaises(message_data)) =>
        /\ norm_pc = "done"
        /\ df = normalize_message_type(WithoutUnrecognized(message_data))

\* C27: in the events of a run no command comes after a token, a done event
\* is the last event (so there is at most one and nothing follows it), and a
\* run that returned, rather than raised, ended with done.
C27_EventStreamWellFormed ==
    /\ \A i, j \in 1..Len(events) :
        (i < j /\ IsToken(events[i])) => ~IsCommandEvent(events[j])
    /\ \A i \in 1..Len(events) : IsDone(events[i]) => i = Len(events)
    /\ (pc = "done" /\ fault = "none") =>
        /\ events # <<>>
        /\ IsDone(events[Len(events)])

\* a run that emitted a command, then a token, then done
C27_Witness ==
    /\ pc = "done"
    /\ fault = "none"
    /\ Len(events) >= 3
    /\ IsCommandEvent(events[1])
    /\ IsToken(events[Len(events) - 1])

\* the streaming call was made
StreamingCallMade ==
    /\ model_calls # <<>>
    /\ model_calls[Len(model_calls)].stream

\* C28: once the streaming call was made, after k iterations whose responses
\* requested tools and one response that did not, the run has made k + 2
\* model calls: k + 1 non-streaming ones with the tool catalog, then the
\* streaming one without it, which was given the transcript of the last
\* non-streaming call.
C28_ModelCallsOfARun ==
    StreamingCallMade =>
        LET n == Len(model_calls) IN
        /\ n = Cardinality(ToolResponses) + 2
        /\ n = iteration + 2
        /\ \A i \in 1..(n - 1) :
            ~model_calls[i].stream /\ model_calls[i].tools
        /\ ~model_calls[n].tools
        /\ model_calls[n].messages = model_calls[n - 1].messages

\* a run of one tool-requesting iteration and a final answer ended: three
\* model calls
C28_Witness ==
    /\ pc = "done"
    /\ StreamingCallMade
    /\ iteration = 1
    /\ Len(model_calls) = 3

\* next has prev as its first messages, in the same positions
Extends(prev, next) ==
    /\ Len(next) >= Len(prev)
    /\ SubSeq(next, 1, Len(prev)) = prev

\* the messages next has after those of prev
Added(prev, next) == SubSeq(next, Len(prev) + 1, Len(next))

\* nothing, or one assistant message with tool calls and then one tool message
\* for each of its calls
IsToolRound(added) ==
    \/ added = <<>>
    \/ /\ added[1].role = "assistant"
       /\ Len(added) = 1 + Len(added[1].tool_calls)
       /\ \A j \in 2..Len(added) : added[j].role = "tool"

TranscriptsExtend ==
    /\ \A i \in 1..(Len(model_calls) - 1) :
        /\ Extends(model_calls[i].messages, model_calls[i + 1].messages)
        /\ IsToolRound(Added(model_calls[i].messages, model_calls[i + 1].messages))
    /\ model_calls # <<>> =>
        Extends(model_calls[Len(model_calls)].messages, messages)

C23_InitialTranscript ==
    model_calls # <<>> =>
        LET first == model_calls[1].messages IN
        /\ Len(first) = Len(history) + 2
        /\ first[1].role = "system"
        /\ SubSeq(first, 2, Len(history) + 1) = history
        /\ first[Len(first)] = [role |-> "user", content |-> [text |-> "question"]]

\* the first model call of a run that was given a history of two messages
C23_Witness ==
    /\ Len(model_calls) = 1
    /\ Len(history) = 2
    /\ Len(model_calls[1].messages) = 4

\* the last upload or reset served was a reset, with the given status
LastReset(status) ==
    /\ store_result.op = "reset"
    /\ store_result.status = status

\* C24: a reset that succeeds leaves no table in the store and no active file
\* id, whatever was uploaded before; a question that arrives next is answered
\* with the no-file notice, without a model call; a reset that fails leaves
\* the active file id as it was.  Checked under AskSpec.
C24_ResetClearsActiveFile ==
    [][/\ (store_ops' # store_ops /\ LastReset("reset")') =>
            /\ tables' = {}
            /\ current_file_id' = NoneId
       /\ (store_ops' # store_ops /\ LastReset("error")') =>
            current_file_id' = current_file_id
       /\ (pc = "ask_start" /\ pc' # pc /\ LastReset("reset")) =>
            /\ events' = <<AnswerEvent("no file uploaded")>>
            /\ pc' = "done"
            /\ model_calls' = <<>>
      ]_vars

\* a reset dropped the tables of an upload, and the question that came next
\* got the no-file notice
C24_Witness ==
    /\ LastReset("reset")
    /\ store_result.tables_dropped > 0
    /\ pc = "done"
    /\ events = <<AnswerEvent("no file uploaded")>>

\* C21: once the caller stopped consuming at an emitted event, the run makes
\* no further model call, executes no further tool and changes neither
\* transcript nor store; at that moment every tool executed was executed in
\* full: its result is in the transcript, or it is the command just emitted.
C21_CancelStopsRun ==
    [][/\ fault = "cancelled" =>
            UNCHANGED <<model_calls, tools_run, tables, messages, events>>
       /\ (fault # "cancelled" /\ fault' = "cancelled") =>
            /\ events # <<>>
            /\ tools_run = Cardinality(ToolMessages)
                             + (IF pc = "yield_command" THEN 1 ELSE 0)
      ]_vars

\* the caller stopped at the command of the first of two tool calls: the
\* second was not executed and no model call followed
C21_Witness ==
    /\ fault = "cancelled"
    /\ pc = "yield_command"
    /\ tool_idx = 1
    /\ Len(tool_calls) = 2
    /\ tools_run = 1
    /\ Len(model_calls) = 1

\* a seek_to_timestamp call with a negative timestamp was executed: its tool
\* message holds an error and no command was emitted
C9_Witness ==
    /\ messages # <<>>
    /\ messages[Len(messages)].role = "tool"
    /\ messages[Len(messages)].name = "seek_to_timestamp"
    /\ messages[Len(messages)].content.json.kind = "error"
    /\ \A i \in 1..Len(events) : ~IsCommandEvent(events[i])

=============================================================================
